---- MODULE Spec2Model ----
(***************************************************************************)
(* A model of gcx (github.com/sxwebdev/gcx), the release CLI of            *)
(* cmd/gcx/main.go: the deploy, publish and build commands.                *)
(*                                                                         *)
(* Every external call (a remote command, a connection, an upload, a       *)
(* compiler process, a notification) is one step of the model; its outcome *)
(* is chosen nondeterministically.  The effects of the calls are recorded  *)
(* in logs (ran, conns, alerts, netops, invoked, ...) so that orderings    *)
(* and counts can be stated over them.                                     *)
(***************************************************************************)
EXTENDS Integers, Sequences, FiniteSets, TLC

(***************************************************************************)
(* Bounds of the model.                                                    *)
(***************************************************************************)
MaxDeploys == 2
MaxCmds == 3
MaxBlobs == 2
MaxEntries == 3
MaxOS == 2
MaxArm == 2
MaxCPU == 2
MaxFiles == 2

(***************************************************************************)
(* Errors are tuples of strings: the message of fmt.Errorf followed by the *)
(* wrapped error.  NoErr is Go's nil error.                                *)
(***************************************************************************)
NoErr == <<>>

Wrap(msg, err) == <<msg>> \o err

Pending == <<"pending">>

VARIABLES
    \* ---- deploy command
    cfgDeploys,     \* cfg.Deploys
    deployName,     \* the --name flag of deploy ("" when absent)
    gitTag,         \* what getGitTag() returns
    knownHosts,     \* ~/.ssh and ~/.ssh/known_hosts
    pc,             \* position of the command's single control flow
    di,             \* index in cfg.Deploys of the deploy being executed
    ci,             \* index in cfg.Commands of the next command
    deployErr,      \* deployErr of executeDeploy
    result,         \* what the command function returned (Pending before)
    ran,            \* log of client.Run calls of executeSSHDeploy
    conns,          \* log of goph.New / goph.NewUnknown calls
    probes,         \* log of ssh-keyscan runs
    alerts,         \* log of sendAlert calls
    returns,        \* log of the values executeDeploy returned
    \* ---- publish command
    cfgBlobs,       \* cfg.Blobs
    publishName,    \* the --name flag of publish ("" when absent)
    awsCreds,       \* AWS_ACCESS_KEY_ID and AWS_SECRET_ACCESS_KEY are both set
    outDir,         \* the entries of the output directory, as os.ReadDir lists them
    remote,         \* the buckets, objects, directories and files at the sinks
    blobs,          \* blobs of publishArtifacts, as indexes in cfg.Blobs
    bi,             \* position of the loop of publishArtifacts in blobs
    fi,             \* position of the upload loop in outDir
    netops,         \* log of the network operations of publish
    processed,      \* log of the blobs the loop of publishArtifacts took up
    finished,       \* log of the sinks that returned, with their error
    \* ---- build command
    cfgBuilds,      \* cfg.Builds
    cfgHooks,       \* cfg.Before.Hooks and cfg.After.Hooks
    numCPU,         \* runtime.NumCPU()
    disk,           \* the output directory: whether it exists, and its entries
    bpos,           \* position of the loop of buildBinaries in cfg.Builds
    hi,             \* position of runHooks in its hook list
    workers,        \* the goroutines of the errgroup of the build at bpos
    egErr,          \* the first error a goroutine of that errgroup returned
    invoked,        \* the compile jobs started (exec "go build"), with counts
    completed,      \* the compile jobs that ended, with their outcome
    stages,         \* log of the stages buildBinaries went through
    \* ---- build command: createArchives
    cfgArchives,    \* cfg.Archives
    files,          \* files of createArchives: what os.ReadDir returned
    apos,           \* position of the loops over files, cfg.Archives, Formats
    archivedFiles,  \* archivedFiles of createArchives
    aworkers,       \* the goroutines of the errgroup of createArchives
    aErr,           \* the first error a goroutine of that errgroup returned
    removals,       \* log of the os.Remove / os.RemoveAll calls of the cleanup
    \* ---- helpers.ExpandPath
    path,           \* the argument of ExpandPath
    usr,            \* what user.Current() returns
    expanded,       \* the path and the error ExpandPath returned
    \* ---- changelog command
    tags,           \* the lines "git tag -l --sort=-v:refname" prints
    currentTag,     \* what getGitTag() returns
    previousTag     \* previousTag of the changelog command (Pending before)

deployVars == <<cfgDeploys, deployName, gitTag, knownHosts, pc, di, ci,
                deployErr, result, ran, conns, probes, alerts, returns>>

deployOnly == <<cfgDeploys, deployName, di, ci, deployErr, ran, conns, alerts,
                returns>>

publishOnly == <<cfgBlobs, publishName, awsCreds, outDir, remote, blobs, bi, fi,
                 netops, processed, finished>>

archiveVars == <<cfgArchives, files, apos, archivedFiles, aworkers, aErr,
                 removals>>

buildOnly == <<cfgBuilds, cfgHooks, numCPU, disk, bpos, hi, workers, egErr,
               invoked, completed, stages, archiveVars>>

helperVars == <<path, usr, expanded>>

changelogVars == <<tags, currentTag, previousTag>>

notDeploy == <<publishOnly, buildOnly, helperVars, changelogVars>>

notPublish == <<deployOnly, buildOnly, helperVars, changelogVars>>

notBuild == <<deployOnly, publishOnly, knownHosts, probes, helperVars,
              changelogVars>>

\* What the steps of buildBinaries outside createArchives leave alone.
notCompile == <<notBuild, archiveVars>>

vars == <<deployVars, publishOnly, buildOnly, helperVars, changelogVars>>

(***************************************************************************)
(* Configuration values.                                                   *)
(***************************************************************************)
DeployNames == {"api", "web"}

CommandNames == <<"A", "B", "C", "D", "E">>

Versions == {"v1.2.0"}

\* A deploy entry that passes validation: k commands, one alert URL.
BaseDeploy(n, k) ==
    [Name |-> n, Provider |-> "ssh", Server |-> "host1", User |-> "root",
     KeyPath |-> "~/.ssh/id_rsa", KeyRaw |-> "",
     InsecureIgnoreHostKey |-> FALSE,
     Commands |-> SubSeq(CommandNames, 1, k),
     URLs |-> <<"slack://token@channel">>]

\* The deploy entries the model draws cfg.Deploys from: the valid entries and
\* the entries that differ from a valid one in one field.
DeployConfigs ==
    LET b == BaseDeploy("api", 1) IN
    {BaseDeploy("api", k) : k \in 0..MaxCmds}
    \cup {BaseDeploy("web", 2)}
    \cup {[b EXCEPT !.Provider = "ftp"],
          [b EXCEPT !.Server = ""],
          [b EXCEPT !.User = ""],
          [b EXCEPT !.KeyPath = ""],
          [b EXCEPT !.KeyRaw = "-----BEGIN KEY-----"],
          [b EXCEPT !.KeyPath = "", !.KeyRaw = "-----BEGIN KEY-----"],
          [b EXCEPT !.InsecureIgnoreHostKey = TRUE],
          [b EXCEPT !.URLs = <<>>],
          [b EXCEPT !.Name = ""]}

SeqsUpTo(S, n) == UNION {[1..k -> S] : k \in 0..n}

\* The states ~/.ssh/known_hosts can be in before the command runs.
KnownHostsStates ==
    {[dir |-> FALSE, file |-> FALSE, hosts |-> {}],
     [dir |-> TRUE, file |-> FALSE, hosts |-> {}],
     [dir |-> TRUE, file |-> TRUE, hosts |-> {}],
     [dir |-> TRUE, file |-> TRUE, hosts |-> {"host1"}]}

(***************************************************************************)
(* Pure functions of the deploy command.                                   *)
(***************************************************************************)
\* DeployConfig.ToSSHDeployConfig (called on the "ssh" branch only).
ToSSHDeployConfig(c) ==
    [Name |-> c.Name, Server |-> c.Server, User |-> c.User,
     KeyPath |-> c.KeyPath, KeyRaw |-> c.KeyRaw,
     InsecureIgnoreHostKey |-> c.InsecureIgnoreHostKey,
     Commands |-> c.Commands]

\* Variant: an empty command list passes validation.
ValidateDeployAnyCommands(c) ==
    IF c.Name = "" THEN <<"name is required">>
    ELSE IF c.Server = "" THEN <<"server is required">>
    ELSE IF c.User = "" THEN <<"user is required">>
    ELSE IF c.KeyPath = "" /\ c.KeyRaw = ""
        THEN <<"either key_path or key_raw is required">>
    ELSE IF c.KeyPath # "" /\ c.KeyRaw # ""
        THEN <<"only one of key_path or key_raw should be provided">>
    ELSE NoErr

\* SSHDeployConfig.Validate
ValidateDeploy(c) ==
    IF c.Name = "" THEN <<"name is required">>
    ELSE IF c.Server = "" THEN <<"server is required">>
    ELSE IF c.User = "" THEN <<"user is required">>
    ELSE IF c.KeyPath = "" /\ c.KeyRaw = ""
        THEN <<"either key_path or key_raw is required">>
    ELSE IF c.KeyPath # "" /\ c.KeyRaw # ""
        THEN <<"only one of key_path or key_raw should be provided">>
    ELSE IF Len(c.Commands) = 0 THEN <<"at least one command is required">>
    ELSE NoErr

\* Variant: the first entry is taken whatever its name.
FindDeployFirstEntry(deploys, name) ==
    IF Len(deploys) > 0 THEN 1 ELSE 0

\* The index of the first entry of cfg.Deploys named name, 0 when there is none
\* (the loop of deployArtifacts returns at the first match).
FindDeploy(deploys, name) ==
    IF \E i \in 1..Len(deploys) : deploys[i].Name = name
    THEN CHOOSE i \in 1..Len(deploys) :
            /\ deploys[i].Name = name
            /\ \A j \in 1..(i - 1) : deploys[j].Name # name
    ELSE 0

\* Variant: the error of client.Run is dropped.
CommandErrorIgnored(cmd, ok) == NoErr

\* The error executeSSHDeploy returns for a command: nil when client.Run
\* succeeded, the wrapped error of the command otherwise.
CommandError(cmd, ok) ==
    IF ok THEN NoErr ELSE <<"command failed", cmd, "exit status 1">>

\* Variant: the status does not follow the outcome.
AlertDataAlwaysSuccess(deploy, version, err) ==
    [AppName |-> deploy.Name, Version |-> version,
     Status |-> "Success", Error |-> NoErr]

\* alertData of executeDeploy as passed to sendAlert.
AlertData(deploy, version, err) ==
    [AppName |-> deploy.Name, Version |-> version,
     Status |-> IF err # NoErr THEN "Failed" ELSE "Success",
     Error |-> err]

\* What sendAlert returns for an outcome of the notification library.
SendAlertError(outcome) ==
    CASE outcome = "sender" -> <<"failed to create alert sender">>
      [] outcome = "send" -> <<"failed to send alerts">>
      [] OTHER -> NoErr

\* Variant: the error of sendAlert is returned.
ExecuteDeployReturnAlertError(err, alertErr) ==
    IF alertErr # NoErr THEN alertErr ELSE err

\* What executeDeploy returns given deployErr and the error of sendAlert: the
\* alert error is logged only.
ExecuteDeployReturn(err, alertErr) == err

\* checkKnonwnHost: the trust store after the call and the error returned, for
\* each place the call can fail at.  Nothing is done when the file exists.
CheckKnownHostOutcomes(kh) ==
    IF kh.file THEN {"exists"}
    ELSE (IF kh.dir THEN {} ELSE {"mkdir"})
         \cup {"write", "keyscan", "open", "append", "ok"}

KnownHostsAfter(kh, server, outcome) ==
    CASE outcome = "exists" -> kh
      [] outcome = "mkdir" -> kh
      [] outcome = "write" -> [kh EXCEPT !.dir = TRUE]
      [] outcome \in {"keyscan", "open", "append"} ->
            [kh EXCEPT !.dir = TRUE, !.file = TRUE]
      [] OTHER -> [dir |-> TRUE, file |-> TRUE, hosts |-> kh.hosts \cup {server}]

CheckKnownHostError(outcome) ==
    CASE outcome = "mkdir" -> <<"failed to create .ssh directory">>
      [] outcome = "write" -> <<"failed to create known_hosts file">>
      [] outcome = "keyscan" -> <<"ssh-keyscan failed">>
      [] outcome = "open" -> <<"failed to open known_hosts file">>
      [] outcome = "append" -> <<"failed to write to known_hosts file">>
      [] OTHER -> NoErr

\* ssh-keyscan runs once the empty file was written.
Probed(outcome) == outcome \in {"keyscan", "open", "append", "ok"}

\* The variables of a command that is not the one run.
NoRemote == [buckets |-> {}, objects |-> {}, dirs |-> {}, files |-> {}]

PublishIdle ==
    /\ cfgBlobs = <<>>
    /\ publishName = ""
    /\ awsCreds = FALSE
    /\ outDir = <<>>
    /\ remote = NoRemote
    /\ blobs = <<>>
    /\ bi = 0
    /\ fi = 0
    /\ netops = <<>>
    /\ processed = <<>>
    /\ finished = <<>>

\* The local variables of createArchives before it is called.
ArchiveIdle ==
    /\ files = <<>>
    /\ apos = [f |-> 0, a |-> 0, k |-> 0]
    /\ archivedFiles = {}
    /\ aworkers = <<>>
    /\ aErr = NoErr
    /\ removals = <<>>

BuildIdle ==
    /\ cfgBuilds = <<>>
    /\ cfgHooks = [Before |-> <<>>, After |-> <<>>]
    /\ numCPU = 1
    /\ disk = [exists |-> FALSE, entries |-> {}]
    /\ bpos = 0
    /\ hi = 0
    /\ workers = <<>>
    /\ egErr = NoErr
    /\ invoked = {}
    /\ completed = {}
    /\ stages = <<>>
    /\ cfgArchives = <<>>
    /\ ArchiveIdle

\* No call of ExpandPath is being looked at on its own.
HelperIdle ==
    /\ path = <<>>
    /\ usr = [err |-> NoErr, HomeDir |-> <<>>]
    /\ expanded = [path |-> <<>>, err |-> Pending]

ChangelogIdle ==
    /\ tags = <<>>
    /\ currentTag = <<>>
    /\ previousTag = Pending

DeployIdle ==
    /\ cfgDeploys = <<>>
    /\ deployName = ""
    /\ di = 0
    /\ ci = 0
    /\ deployErr = NoErr
    /\ ran = <<>>
    /\ conns = <<>>
    /\ alerts = <<>>
    /\ returns = <<>>

(***************************************************************************)
(* The deploy command.                                                     *)
(***************************************************************************)
InitDeploy ==
    /\ cfgDeploys \in SeqsUpTo(DeployConfigs, MaxDeploys)
    /\ deployName \in {""} \cup DeployNames
    /\ gitTag \in Versions
    /\ knownHosts \in KnownHostsStates
    /\ pc = "deployArtifacts"
    /\ di = 0
    /\ ci = 0
    /\ deployErr = NoErr
    /\ result = Pending
    /\ ran = <<>>
    /\ conns = <<>>
    /\ probes = <<>>
    /\ alerts = <<>>
    /\ returns = <<>>
    /\ PublishIdle
    /\ BuildIdle
    /\ HelperIdle
    /\ ChangelogIdle

\* deployArtifacts up to the first call of executeDeploy.
DeployArtifacts ==
    /\ pc = "deployArtifacts"
    /\ IF Len(cfgDeploys) = 0
       THEN /\ result' = <<"no deploy configurations found">>
            /\ pc' = "done"
            /\ di' = di
       ELSE IF deployName # ""
       THEN LET i == FindDeploy(cfgDeploys, deployName) IN
            IF i = 0
            THEN /\ result' = <<"deploy configuration not found", deployName>>
                 /\ pc' = "done"
                 /\ di' = di
            ELSE /\ di' = i
                 /\ pc' = "executeDeploy"
                 /\ result' = result
       ELSE /\ di' = 1
            /\ pc' = "executeDeploy"
            /\ result' = result
    /\ UNCHANGED <<cfgDeploys, deployName, gitTag, knownHosts, ci, deployErr,
                   ran, conns, probes, alerts, returns>>
    /\ UNCHANGED notDeploy

\* Variant: checkKnonwnHost is called whatever the flag says.
VerifiesHostKeyAlways(insecureIgnoreHostKey) == TRUE

\* executeSSHDeploy and publishToSSH: "if !cfg.InsecureIgnoreHostKey" guards
\* the call of checkKnonwnHost.
VerifiesHostKey(insecureIgnoreHostKey) == ~insecureIgnoreHostKey

\* executeDeploy: the provider switch, and executeSSHDeploy up to Validate.
ExecuteDeploy ==
    /\ pc = "executeDeploy"
    /\ LET d == cfgDeploys[di]
           e == IF d.Provider # "ssh"
                THEN <<"unsupported deploy provider", d.Provider>>
                ELSE LET v == ValidateDeploy(ToSSHDeployConfig(d)) IN
                     IF v # NoErr THEN Wrap("invalid SSH configuration", v)
                     ELSE NoErr
       IN /\ deployErr' = e
          /\ pc' = IF e # NoErr THEN "sendAlert"
                   ELSE IF VerifiesHostKey(d.InsecureIgnoreHostKey)
                   THEN "checkKnownHost"
                   ELSE "loadKey"
    /\ ci' = 1
    /\ UNCHANGED <<cfgDeploys, deployName, gitTag, knownHosts, di, result,
                   ran, conns, probes, alerts, returns>>
    /\ UNCHANGED notDeploy

\* executeSSHDeploy: the call of checkKnonwnHost.
DeployCheckKnownHost ==
    /\ pc = "checkKnownHost"
    /\ \E o \in CheckKnownHostOutcomes(knownHosts) :
        LET server == cfgDeploys[di].Server
            e == CheckKnownHostError(o)
        IN /\ knownHosts' = KnownHostsAfter(knownHosts, server, o)
           /\ probes' = IF Probed(o) THEN Append(probes, server) ELSE probes
           /\ deployErr' = IF e # NoErr
                           THEN Wrap("failed to check known_hosts file", e)
                           ELSE NoErr
           /\ pc' = IF e # NoErr THEN "sendAlert" ELSE "loadKey"
    /\ UNCHANGED <<cfgDeploys, deployName, gitTag, di, ci, result, ran, conns,
                   alerts, returns>>
    /\ UNCHANGED notDeploy

\* executeSSHDeploy: goph.RawKey, or helpers.ExpandPath and goph.Key.
DeployLoadKey ==
    /\ pc = "loadKey"
    /\ \E o \in {"ok", "load"} \cup
                (IF cfgDeploys[di].KeyRaw = "" THEN {"expand"} ELSE {}) :
        /\ deployErr' = CASE o = "load" -> <<"failed to load SSH key">>
                          [] o = "expand" -> <<"failed to expand key path">>
                          [] OTHER -> NoErr
        /\ pc' = IF o = "ok" THEN "connect" ELSE "sendAlert"
    /\ UNCHANGED <<cfgDeploys, deployName, gitTag, knownHosts, di, ci, result,
                   ran, conns, probes, alerts, returns>>
    /\ UNCHANGED notDeploy

\* Whether the connection can be made: goph.New verifies the key of the server
\* against known_hosts and fails for a server without a key there;
\* goph.NewUnknown accepts any key.
HostKeyAccepted(insecure, kh, server) == insecure \/ server \in kh.hosts

\* executeSSHDeploy: goph.NewUnknown or goph.New.
DeployConnect ==
    /\ pc = "connect"
    /\ \E ok \in BOOLEAN :
        LET d == cfgDeploys[di] IN
        /\ ok => HostKeyAccepted(d.InsecureIgnoreHostKey, knownHosts, d.Server)
        /\ conns' = Append(conns, [deploy |-> di, server |-> d.Server,
                                   insecure |-> d.InsecureIgnoreHostKey,
                                   ok |-> ok])
        /\ deployErr' = IF ok THEN NoErr
                        ELSE IF d.InsecureIgnoreHostKey
                        THEN <<"failed to create insecure SSH client">>
                        ELSE <<"failed to create SSH client">>
        /\ pc' = IF ~ok THEN "sendAlert"
                 ELSE IF ci <= Len(d.Commands) THEN "run" ELSE "sendAlert"
    /\ UNCHANGED <<cfgDeploys, deployName, gitTag, knownHosts, di, ci, result,
                   ran, probes, alerts, returns>>
    /\ UNCHANGED notDeploy

\* executeSSHDeploy: one iteration of the loop over cfg.Commands.
DeployRunCommand ==
    /\ pc = "run"
    /\ \E ok \in BOOLEAN :
        LET cmds == cfgDeploys[di].Commands
            e == CommandError(cmds[ci], ok)
        IN /\ ran' = Append(ran, [deploy |-> di, idx |-> ci, cmd |-> cmds[ci],
                                  ok |-> ok])
           /\ deployErr' = e
           /\ ci' = IF e # NoErr THEN ci ELSE ci + 1
           /\ pc' = IF e # NoErr \/ ci = Len(cmds) THEN "sendAlert" ELSE "run"
    /\ UNCHANGED <<cfgDeploys, deployName, gitTag, knownHosts, di, result,
                   conns, probes, alerts, returns>>
    /\ UNCHANGED notDeploy

\* executeDeploy: the call of sendAlert and the return.
DeploySendAlert ==
    /\ pc = "sendAlert"
    /\ LET d == cfgDeploys[di] IN
       \E o \in IF Len(d.URLs) = 0 THEN {"nourls"} ELSE {"ok", "sender", "send"} :
        /\ alerts' = Append(alerts, [deploy |-> di,
                                     data |-> AlertData(d, gitTag, deployErr),
                                     outcome |-> o])
        /\ returns' = Append(returns,
                [deploy |-> di,
                 err |-> ExecuteDeployReturn(deployErr, SendAlertError(o))])
    /\ pc' = "deployReturn"
    /\ UNCHANGED <<cfgDeploys, deployName, gitTag, knownHosts, di, ci,
                   deployErr, result, ran, conns, probes>>
    /\ UNCHANGED notDeploy

\* Variant: the loop goes on after a failed deploy.
StopsAtErrorNever(err) == FALSE

\* Whether the loop of deployArtifacts over all deploys goes on after an error.
StopsAtError(err) == err # NoErr

\* deployArtifacts after executeDeploy returned.
DeployReturn ==
    /\ pc = "deployReturn"
    /\ LET err == returns[Len(returns)].err IN
       IF deployName # ""
       THEN /\ result' = err
            /\ pc' = "done"
            /\ di' = di
       ELSE IF StopsAtError(err)
       THEN /\ result' = Wrap("deploy failed", <<cfgDeploys[di].Name>> \o err)
            /\ pc' = "done"
            /\ di' = di
       ELSE IF di < Len(cfgDeploys)
       THEN /\ di' = di + 1
            /\ pc' = "executeDeploy"
            /\ result' = result
       ELSE /\ result' = NoErr
            /\ pc' = "done"
            /\ di' = di
    /\ UNCHANGED <<cfgDeploys, deployName, gitTag, knownHosts, ci, deployErr,
                   ran, conns, probes, alerts, returns>>
    /\ UNCHANGED notDeploy

NextDeploy ==
    \/ DeployArtifacts
    \/ ExecuteDeploy
    \/ DeployCheckKnownHost
    \/ DeployLoadKey
    \/ DeployConnect
    \/ DeployRunCommand
    \/ DeploySendAlert
    \/ DeployReturn

SpecDeploy == InitDeploy /\ [][NextDeploy]_vars

(***************************************************************************)
(* Templates (text/template).  A template is a sequence of tokens: literal *)
(* text, a field reference {{.F}}, or an action that does not parse.  The  *)
(* rendered text is the sequence of the pieces written.                    *)
(***************************************************************************)
Lit(t) == [kind |-> "lit", v |-> t]

Field(f) == [kind |-> "field", v |-> f]

BadAction == [kind |-> "bad", v |-> "{{"]

\* template.New(..).Parse
ParseError(tmpl) ==
    IF \E k \in 1..Len(tmpl) : tmpl[k].kind = "bad"
    THEN <<"template: unclosed action">>
    ELSE NoErr

\* Template.Execute with a map[string]string as data: a key that is not in the
\* map renders as "<no value>" and is no error.
ExecuteMap(tmpl, data) ==
    [k \in 1..Len(tmpl) |->
        IF tmpl[k].kind = "lit" THEN tmpl[k].v
        ELSE IF tmpl[k].v \in DOMAIN data THEN data[tmpl[k].v]
        ELSE "<no value>"]

(***************************************************************************)
(* The publish command.                                                    *)
(***************************************************************************)
SinkNames == {"prod", "mirror"}

VersionDir == <<Lit("releases/"), Field("Version")>>

\* The entries of blobs as the configuration file holds them: the fields of
\* BlobConfig, and the key key_raw, which BlobConfig has no field for and
\* yaml.Unmarshal leaves out.
BaseS3(n) ==
    [Provider |-> "s3", Name |-> n, Bucket |-> "artifacts", Region |-> "us-east-1",
     Endpoint |-> "https://s3.example.com", Server |-> "", User |-> "",
     KeyPath |-> "", key_raw |-> "", InsecureIgnoreHostKey |-> FALSE,
     Directory |-> VersionDir]

BaseSSH(n) ==
    [Provider |-> "ssh", Name |-> n, Bucket |-> "", Region |-> "",
     Endpoint |-> "", Server |-> "host1", User |-> "root",
     KeyPath |-> "~/.ssh/id_rsa", key_raw |-> "",
     InsecureIgnoreHostKey |-> FALSE, Directory |-> VersionDir]

\* The sinks the model draws cfg.Blobs from: sinks of the two providers under
\* the two names and a sink of an unknown provider,
BlobConfigs ==
    {BaseS3(n) : n \in SinkNames}
    \cup {BaseSSH(n) : n \in SinkNames}
    \cup {[BaseS3("prod") EXCEPT !.Provider = "gcs"]}

\* and sinks with one field out of the ordinary.
SpecialBlobConfigs ==
    {[BaseS3("prod") EXCEPT !.Directory = <<Lit("releases/"), BadAction>>],
     [BaseSSH("prod") EXCEPT !.Server = ""],
     [BaseS3("prod") EXCEPT !.Directory = <<Lit("releases/"), Field("Binary")>>],
     [BaseSSH("prod") EXCEPT !.KeyPath = ""],
     [BaseSSH("prod") EXCEPT !.KeyPath = "", !.key_raw = "PEM"],
     [BaseSSH("prod") EXCEPT !.InsecureIgnoreHostKey = TRUE]}

\* The values of cfg.Blobs: up to MaxBlobs sinks of BlobConfigs, and a sink
\* of SpecialBlobConfigs alone, before or after one of BlobConfigs.
BlobLists ==
    SeqsUpTo(BlobConfigs, MaxBlobs)
    \cup {<<c>> : c \in SpecialBlobConfigs}
    \cup {<<c, d>> : c \in SpecialBlobConfigs, d \in BlobConfigs}
    \cup {<<d, c>> : c \in SpecialBlobConfigs, d \in BlobConfigs}

\* The entries an output directory can hold, in the order of os.ReadDir (by
\* name).
AllEntries ==
    <<[name |-> "app_v1.2.0_linux_amd64.tar.gz", isDir |-> FALSE],
      [name |-> "app_v1.2.0_linux_arm64", isDir |-> TRUE],
      [name |-> "checksums.txt", isDir |-> FALSE],
      [name |-> "readme.md", isDir |-> FALSE],
      [name |-> "sbom.json", isDir |-> FALSE]>>

\* BlobConfig.ToS3Config (called on the "s3" branch only).
ToS3Config(c) ==
    [Bucket |-> c.Bucket, Directory |-> c.Directory, Region |-> c.Region,
     Endpoint |-> c.Endpoint]

\* BlobConfig.ToSSHConfig (called on the "ssh" branch only): BlobConfig has no
\* key_raw field, KeyRaw keeps its zero value.
ToSSHConfig(c) ==
    [Name |-> c.Name, Server |-> c.Server, User |-> c.User,
     KeyPath |-> c.KeyPath, KeyRaw |-> "",
     InsecureIgnoreHostKey |-> c.InsecureIgnoreHostKey,
     Directory |-> c.Directory]

\* SSHPublishConfig.Validate
ValidatePublish(c) ==
    IF c.Name = "" THEN <<"name is required">>
    ELSE IF c.Server = "" THEN <<"server is required">>
    ELSE IF c.User = "" THEN <<"user is required">>
    ELSE IF c.KeyPath = "" /\ c.KeyRaw = ""
        THEN <<"either key_path or key_raw is required">>
    ELSE IF c.KeyPath # "" /\ c.KeyRaw # ""
        THEN <<"only one of key_path or key_raw should be provided">>
    ELSE IF c.Directory = <<>> THEN <<"directory is required">>
    ELSE NoErr

\* tmplData of publishArtifacts.
TmplData(tag) == [f \in {"Version"} |-> tag]

\* The directory template of a sink: the error of Parse, else nil.
DirectoryError(c) ==
    IF ParseError(c.Directory) # NoErr
    THEN Wrap("error parsing directory template", ParseError(c.Directory))
    ELSE NoErr

\* remoteDir of publishToS3 and publishToSSH.
RemoteDir(c, tag) == ExecuteMap(c.Directory, TmplData(tag))

\* Variant: the name is not looked at.
SelectBlobsIgnoringName(cfg, name) == [i \in 1..Len(cfg) |-> i]

\* Variant: the selected sinks are taken last to first.
SelectBlobsReversed(cfg, name) ==
    LET sel == SelectSeq([i \in 1..Len(cfg) |-> i],
                         LAMBDA i : name = "" \/ cfg[i].Name = name)
    IN [k \in 1..Len(sel) |-> sel[Len(sel) + 1 - k]]

\* blobs of publishArtifacts: the sinks named name, or every sink when no name
\* is given, in the order of cfg.Blobs.
SelectBlobs(cfg, name) ==
    SelectSeq([i \in 1..Len(cfg) |-> i],
              LAMBDA i : name = "" \/ cfg[i].Name = name)

\* Variant: the credentials are not looked at.
S3PrecheckNoCreds(c, creds) == DirectoryError(c)

\* publishToS3 before its first call of the storage service: the credentials
\* and the directory template.
S3Precheck(c, creds) ==
    IF ~creds
    THEN <<"AWS_ACCESS_KEY_ID and AWS_SECRET_ACCESS_KEY must be set">>
    ELSE DirectoryError(c)

\* publishToSSH before its first external call: Validate and the directory
\* template.
SSHPrecheck(c) ==
    IF ValidatePublish(c) # NoErr
    THEN Wrap("invalid SSH configuration", ValidatePublish(c))
    ELSE DirectoryError(c)

\* Variant: directories are not skipped.
NextFileAny(entries, i) == IF i > Len(entries) THEN Len(entries) + 1 ELSE i

\* The first entry at or after position i that the upload loops do not skip
\* (file.IsDir()), Len + 1 when there is none.
NextFile(entries, i) ==
    LET rest == {k \in i..Len(entries) : ~entries[k].isDir} IN
    IF rest = {} THEN Len(entries) + 1
    ELSE CHOOSE k \in rest : \A j \in rest : k <= j

\* The remote state earlier publish runs left: the bucket and the directories
\* of two releases, with a file of each.
EarlierRun ==
    [buckets |-> {"artifacts"},
     objects |-> {<<"artifacts", <<"releases/", "v1.1.0">>, "checksums.txt">>,
                  <<"artifacts", <<"releases/", "v1.2.0">>, "checksums.txt">>},
     dirs |-> {<<"host1", <<"releases/", "v1.1.0">>>>,
               <<"host1", <<"releases/", "v1.2.0">>>>},
     files |-> {<<"host1", <<"releases/", "v1.1.0">>, "checksums.txt">>,
                <<"host1", <<"releases/", "v1.2.0">>, "checksums.txt">>}]

InitPublish ==
    /\ cfgBlobs \in BlobLists
    /\ publishName \in {""} \cup SinkNames
    /\ awsCreds \in BOOLEAN
    /\ outDir \in {SubSeq(AllEntries, 1, k) : k \in 0..MaxEntries}
    /\ remote \in {NoRemote, EarlierRun}
    /\ gitTag \in Versions
    /\ knownHosts \in KnownHostsStates
    /\ pc = "publishArtifacts"
    /\ result = Pending
    /\ probes = <<>>
    /\ blobs = <<>>
    /\ bi = 0
    /\ fi = 0
    /\ netops = <<>>
    /\ processed = <<>>
    /\ finished = <<>>
    /\ DeployIdle
    /\ HelperIdle
    /\ ChangelogIdle
    /\ BuildIdle

\* The sink being published to.
Blob == cfgBlobs[blobs[bi]]

SinkKind == IF Blob.Provider = "s3" THEN "s3 publish error" ELSE "ssh publish error"

NetOp(op, arg) == Append(netops, [blob |-> blobs[bi], op |-> op, arg |-> arg])

\* Variant: the error of a sink is logged and the loop goes on.
SinkFailsLogged(e) ==
    /\ finished' = Append(finished, [blob |-> blobs[bi], err |-> e])
    /\ result' = result
    /\ pc' = "publishLoop"
    /\ bi' = bi + 1

\* The sink returned an error: publishArtifacts wraps and returns it.
SinkFails(e) ==
    /\ finished' = Append(finished, [blob |-> blobs[bi], err |-> e])
    /\ result' = Wrap(SinkKind, e)
    /\ pc' = "done"
    /\ bi' = bi

\* The sink returned nil: the loop of publishArtifacts goes on.
SinkReturns ==
    /\ finished' = Append(finished, [blob |-> blobs[bi], err |-> NoErr])
    /\ result' = result
    /\ pc' = "publishLoop"
    /\ bi' = bi + 1

\* The sink goes on at position next.
SinkGoes(next) ==
    /\ finished' = finished
    /\ result' = result
    /\ pc' = next
    /\ bi' = bi

\* Variant: an unknown provider is an error.
SinkSkippedFatal ==
    /\ finished' = finished
    /\ result' = <<"unknown provider", Blob.Provider>>
    /\ pc' = "done"
    /\ bi' = bi

\* The default branch of the provider switch: the sink is logged as skipped
\* and the loop of publishArtifacts goes on.
SinkSkipped ==
    /\ finished' = finished
    /\ result' = result
    /\ pc' = pc
    /\ bi' = bi + 1

\* publishArtifacts up to the loop over blobs.
PublishArtifacts ==
    /\ pc = "publishArtifacts"
    /\ LET sel == SelectBlobs(cfgBlobs, publishName) IN
       IF publishName # "" /\ Len(sel) = 0
       THEN /\ result' = <<"publish configuration not found", publishName>>
            /\ pc' = "done"
            /\ UNCHANGED <<blobs, bi>>
       ELSE /\ blobs' = sel
            /\ bi' = 1
            /\ pc' = "publishLoop"
            /\ result' = result
    /\ UNCHANGED <<cfgBlobs, publishName, awsCreds, outDir, remote, fi, netops,
                   processed, finished, gitTag, knownHosts, probes>>
    /\ UNCHANGED notPublish

\* The loop of publishArtifacts is over.
PublishDone ==
    /\ pc = "publishLoop"
    /\ bi > Len(blobs)
    /\ result' = NoErr
    /\ pc' = "done"
    /\ UNCHANGED <<cfgBlobs, publishName, awsCreds, outDir, remote, blobs, bi,
                   fi, netops, processed, finished, gitTag, knownHosts, probes>>
    /\ UNCHANGED notPublish

\* One iteration of the loop of publishArtifacts: the provider switch, and the
\* sink function up to its first external call.
PublishBlob ==
    /\ pc = "publishLoop"
    /\ bi <= Len(blobs)
    /\ processed' = Append(processed, blobs[bi])
    /\ \/ /\ Blob.Provider = "s3"
          /\ LET e == S3Precheck(ToS3Config(Blob), awsCreds) IN
             IF e # NoErr THEN SinkFails(e) ELSE SinkGoes("bucketExists")
       \/ /\ Blob.Provider = "ssh"
          /\ LET e == SSHPrecheck(ToSSHConfig(Blob)) IN
             IF e # NoErr THEN SinkFails(e)
             ELSE IF VerifiesHostKey(Blob.InsecureIgnoreHostKey)
             THEN SinkGoes("pubCheckKnownHost")
             ELSE SinkGoes("pubLoadKey")
       \/ /\ Blob.Provider \notin {"s3", "ssh"}
          /\ SinkSkipped
    /\ UNCHANGED <<cfgBlobs, publishName, awsCreds, outDir, remote, blobs, fi,
                   netops, gitTag, knownHosts, probes>>
    /\ UNCHANGED notPublish

\* os.ReadDir(artifactsDir) of publishToS3 and publishToSSH: an error (the
\* directory is not there), or the upload loop begins at the first entry that
\* is no directory.
ReadArtifacts ==
    \/ /\ SinkFails(<<"failed to read directory">>)
       /\ fi' = fi
    \/ /\ SinkGoes("upload")
       /\ fi' = NextFile(outDir, 1)

\* publishToS3: s3Client.BucketExists.
S3BucketExists ==
    /\ pc = "bucketExists"
    /\ netops' = NetOp("BucketExists", Blob.Bucket)
    /\ \/ /\ SinkFails(<<"bucket check error">>)
          /\ fi' = fi
       \/ /\ Blob.Bucket \in remote.buckets
          /\ ReadArtifacts
       \/ /\ Blob.Bucket \notin remote.buckets
          /\ SinkGoes("makeBucket")
          /\ fi' = fi
    /\ UNCHANGED <<cfgBlobs, publishName, awsCreds, outDir, remote, blobs,
                   processed, gitTag, knownHosts, probes>>
    /\ UNCHANGED notPublish

\* publishToS3: s3Client.MakeBucket.
S3MakeBucket ==
    /\ pc = "makeBucket"
    /\ netops' = NetOp("MakeBucket", Blob.Bucket)
    /\ \/ /\ SinkFails(<<"failed to create bucket">>)
          /\ UNCHANGED <<remote, fi>>
       \/ /\ remote' = [remote EXCEPT !.buckets = @ \cup {Blob.Bucket}]
          /\ ReadArtifacts
    /\ UNCHANGED <<cfgBlobs, publishName, awsCreds, outDir, blobs, processed,
                   gitTag, knownHosts, probes>>
    /\ UNCHANGED notPublish

\* publishToSSH: the call of checkKnonwnHost.
PubCheckKnownHost ==
    /\ pc = "pubCheckKnownHost"
    /\ \E o \in CheckKnownHostOutcomes(knownHosts) :
        LET e == CheckKnownHostError(o) IN
        /\ knownHosts' = KnownHostsAfter(knownHosts, Blob.Server, o)
        /\ probes' = IF Probed(o) THEN Append(probes, Blob.Server) ELSE probes
        /\ IF e # NoErr
           THEN SinkFails(Wrap("failed to check known_hosts file", e))
           ELSE SinkGoes("pubLoadKey")
    /\ UNCHANGED <<cfgBlobs, publishName, awsCreds, outDir, remote, blobs, fi,
                   netops, processed, gitTag>>
    /\ UNCHANGED notPublish

\* publishToSSH: goph.RawKey, or helpers.ExpandPath and goph.Key.
PubLoadKey ==
    /\ pc = "pubLoadKey"
    /\ \E o \in {"ok", "load"} \cup
                (IF ToSSHConfig(Blob).KeyRaw = "" THEN {"expand"} ELSE {}) :
        CASE o = "load" -> SinkFails(<<"failed to load SSH key">>)
          [] o = "expand" -> SinkFails(<<"failed to expand key path">>)
          [] OTHER -> SinkGoes("pubConnect")
    /\ UNCHANGED <<cfgBlobs, publishName, awsCreds, outDir, remote, blobs, fi,
                   netops, processed, gitTag, knownHosts, probes>>
    /\ UNCHANGED notPublish

\* publishToSSH: goph.NewUnknown or goph.New.
PubConnect ==
    /\ pc = "pubConnect"
    /\ netops' = NetOp("Connect", Blob.Server)
    /\ \/ SinkFails(IF Blob.InsecureIgnoreHostKey
                    THEN <<"failed to create insecure SSH client">>
                    ELSE <<"failed to create SSH client">>)
       \/ /\ HostKeyAccepted(Blob.InsecureIgnoreHostKey, knownHosts, Blob.Server)
          /\ SinkGoes("pubMkdir")
    /\ UNCHANGED <<cfgBlobs, publishName, awsCreds, outDir, remote, blobs, fi,
                   processed, gitTag, knownHosts, probes>>
    /\ UNCHANGED notPublish

\* publishToSSH: client.Run("mkdir -p remoteDir").
PubMkdir ==
    /\ pc = "pubMkdir"
    /\ netops' = NetOp("Mkdir", RemoteDir(Blob, gitTag))
    /\ \/ /\ SinkFails(<<"failed to create remote directory">>)
          /\ UNCHANGED <<remote, fi>>
       \/ /\ remote' = [remote EXCEPT
                !.dirs = @ \cup {<<Blob.Server, RemoteDir(Blob, gitTag)>>}]
          /\ ReadArtifacts
    /\ UNCHANGED <<cfgBlobs, publishName, awsCreds, outDir, blobs, processed,
                   gitTag, knownHosts, probes>>
    /\ UNCHANGED notPublish

\* remotePath of the upload loops, with the place it is at.
RemotePath(c, tag, name) ==
    <<IF c.Provider = "s3" THEN c.Bucket ELSE c.Server, RemoteDir(c, tag), name>>

\* Variant: the upload replaces what the place held.
UploadedReplacing(rem, c, tag, name) ==
    IF c.Provider = "s3"
    THEN [rem EXCEPT !.objects = {RemotePath(c, tag, name)}]
    ELSE [rem EXCEPT !.files = {RemotePath(c, tag, name)}]

\* The remote state after the upload of the entry named name succeeded.
Uploaded(rem, c, tag, name) ==
    IF c.Provider = "s3"
    THEN [rem EXCEPT !.objects = @ \cup {RemotePath(c, tag, name)}]
    ELSE [rem EXCEPT !.files = @ \cup {RemotePath(c, tag, name)}]

\* Variant: a failed upload takes back what was uploaded.
UploadFailedRollback(rem, c, tag, name) ==
    {[rem EXCEPT !.objects = {}, !.files = {}]}

\* The remote states a failed upload can leave: PutObject stores nothing;
\* client.Upload creates the remote file before it copies, so the file can
\* be there, in part.
UploadFailed(rem, c, tag, name) ==
    IF c.Provider = "s3" THEN {rem} ELSE {rem, Uploaded(rem, c, tag, name)}

\* The call that uploads one file.
UploadOp == IF Blob.Provider = "s3" THEN "PutObject" ELSE "Upload"

\* One iteration of the upload loop of publishToS3 (s3Client.PutObject) or of
\* publishToSSH (client.Upload) for an entry that is no directory.
UploadFile ==
    /\ pc = "upload"
    /\ fi <= Len(outDir)
    /\ \/ /\ Blob.Provider = "s3"
          /\ SinkFails(<<"failed to open file", outDir[fi].name>>)
          /\ UNCHANGED <<remote, fi, netops>>
       \/ /\ netops' = NetOp(UploadOp, RemotePath(Blob, gitTag, outDir[fi].name))
          /\ \/ /\ SinkFails(<<"failed to upload file", outDir[fi].name>>)
                /\ remote' \in UploadFailed(remote, Blob, gitTag, outDir[fi].name)
                /\ fi' = fi
             \/ /\ SinkGoes("upload")
                /\ remote' = Uploaded(remote, Blob, gitTag, outDir[fi].name)
                /\ fi' = NextFile(outDir, fi + 1)
    /\ UNCHANGED <<cfgBlobs, publishName, awsCreds, outDir, blobs, processed,
                   gitTag, knownHosts, probes>>
    /\ UNCHANGED notPublish

\* The upload loop is over: the sink returns nil.
UploadsDone ==
    /\ pc = "upload"
    /\ fi > Len(outDir)
    /\ SinkReturns
    /\ UNCHANGED <<cfgBlobs, publishName, awsCreds, outDir, remote, blobs, fi,
                   netops, processed, gitTag, knownHosts, probes>>
    /\ UNCHANGED notPublish

NextPublish ==
    \/ PublishArtifacts
    \/ PublishDone
    \/ PublishBlob
    \/ S3BucketExists
    \/ S3MakeBucket
    \/ PubCheckKnownHost
    \/ PubLoadKey
    \/ PubConnect
    \/ PubMkdir
    \/ UploadFile
    \/ UploadsDone

SpecPublish == InitPublish /\ [][NextPublish]_vars

(***************************************************************************)
(* The build command.  A name that fmt.Sprintf joins with "_" (the binary  *)
(* name, the version) is the sequence of its "_"-free segments, and a name *)
(* built by joining is the concatenation of the segments of its parts.     *)
(***************************************************************************)
OSList == <<"linux", "darwin", "windows", "freebsd">>

ArchList == <<"amd64", "arm">>

ArmList == <<"6", "7", "5", "4">>

\* The subsequences of q: the entries at the positions picked, in order.
SubSeqs(q) ==
    {SelectSeq([k \in 1..Len(q) |-> <<k, q[k]>>], LAMBDA e : e[1] \in picked) :
        picked \in SUBSET (1..Len(q))}

Second(q) == [k \in 1..Len(q) |-> q[k][2]]

BaseBuild(goos, goarch, goarm, nosuffix) ==
    [Main |-> <<"cmd", "app">>, OutputName |-> <<>>,
     DisablePlatformSuffix |-> nosuffix,
     Goos |-> goos, Goarch |-> goarch, Goarm |-> goarm,
     Ldflags |-> <<>>]

\* A second build configuration, of one target.
ToolBuild ==
    [BaseBuild(<<"linux">>, <<"amd64">>, <<>>, FALSE) EXCEPT
        !.Main = <<"cmd", "tool">>,
        !.Ldflags = << <<Lit("-X main.version="), Field("Version")>> >>]

\* The build configurations the model draws from.
BuildConfigs ==
    {BaseBuild(Second(goos), Second(goarch), SubSeq(ArmList, 1, n), nosuffix) :
        goos \in SubSeqs(SubSeq(OSList, 1, MaxOS)),
        goarch \in SubSeqs(ArchList),
        n \in 0..MaxArm,
        nosuffix \in BOOLEAN}
    \cup {[BaseBuild(<<"linux">>, <<"amd64">>, <<>>, FALSE) EXCEPT
            !.OutputName = <<"my", "app">>],
          [BaseBuild(<<"linux">>, <<"amd64">>, <<>>, FALSE) EXCEPT
            !.Ldflags = << <<Lit("-X main.name="), Field("Binary")>> >>]}

HookConfigs ==
    {[Before |-> <<>>, After |-> <<>>],
     [Before |-> <<"go mod tidy">>, After |-> <<"ls dist">>]}

\* binaryBase of buildBinaries: output_name, else the last element of main.
BinaryBase(b) ==
    IF b.OutputName # <<>> THEN b.OutputName ELSE <<b.Main[Len(b.Main)]>>

\* Template.Execute of an ldflag on the struct {Version, Commit, Date, Env}: a
\* field the struct does not have is an error.
LdflagsError(b) ==
    IF \E k \in 1..Len(b.Ldflags) : ParseError(b.Ldflags[k]) # NoErr
    THEN <<"failed to parse ldflag template">>
    ELSE IF \E k \in 1..Len(b.Ldflags) : \E t \in 1..Len(b.Ldflags[k]) :
                /\ b.Ldflags[k][t].kind = "field"
                /\ b.Ldflags[k][t].v \notin {"Version", "Commit", "Date", "Env"}
    THEN <<"failed to execute ldflag template">>
    ELSE NoErr

\* Variant: the OS is left out of the directory name.
GetOutputFilenameNoOs(usePlatformSuffix, dir, binaryBase, version, goos, goarch, goarm) ==
    IF usePlatformSuffix
    THEN IF goarch = "arm" /\ goarm # ""
         THEN <<dir, binaryBase \o version \o <<goarch, goarm>>, binaryBase>>
         ELSE <<dir, binaryBase \o version \o <<goarch>>, binaryBase>>
    ELSE <<dir, binaryBase \o version, binaryBase>>

\* Variant: the binary is written into the output directory itself.
GetOutputFilenameFlat(usePlatformSuffix, dir, binaryBase, version, goos, goarch, goarm) ==
    IF usePlatformSuffix
    THEN <<dir, binaryBase \o version \o <<goos, goarch>>
                \o (IF goarch = "arm" /\ goarm # "" THEN <<goarm>> ELSE <<>>)>>
    ELSE <<dir, binaryBase \o version>>

\* getOutputFilename: <<outDir, the segments of the directory name, the
\* segments of the file name>>.
getOutputFilename(usePlatformSuffix, dir, binaryBase, version, goos, goarch, goarm) ==
    IF usePlatformSuffix
    THEN IF goarch = "arm" /\ goarm # ""
         THEN <<dir, binaryBase \o version \o <<goos, goarch, goarm>>, binaryBase>>
         ELSE <<dir, binaryBase \o version \o <<goos, goarch>>, binaryBase>>
    ELSE <<dir, binaryBase \o version, binaryBase>>

\* Variant: arm is built for every OS.
ArchJobsNoSkip(b, goos, goarch) ==
    IF goarch = "arm" /\ Len(b.Goarm) > 0
    THEN [k \in 1..Len(b.Goarm) |-> [goarch |-> goarch, goarm |-> b.Goarm[k]]]
    ELSE <<[goarch |-> goarch, goarm |-> ""]>>

\* Variant: the ARM variants are not iterated.
ArchJobsNoVariants(b, goos, goarch) ==
    IF goarch = "arm" /\ goos # "linux" THEN <<>>
    ELSE <<[goarch |-> goarch, goarm |-> ""]>>

\* The (goarch, goarm) pairs the goroutine of goos compiles for one goarch:
\* the body of the loop over buildCfg.Goarch.
ArchJobs(b, goos, goarch) ==
    IF goarch = "arm" /\ goos # "linux" THEN <<>>
    ELSE IF goarch = "arm" /\ Len(b.Goarm) > 0
    THEN [k \in 1..Len(b.Goarm) |-> [goarch |-> goarch, goarm |-> b.Goarm[k]]]
    ELSE <<[goarch |-> goarch, goarm |-> ""]>>

\* The pairs the goroutine of goos compiles, in the order it compiles them.
RECURSIVE JobsFrom(_, _, _)
JobsFrom(b, goos, a) ==
    IF a > Len(b.Goarch) THEN <<>>
    ELSE ArchJobs(b, goos, b.Goarch[a]) \o JobsFrom(b, goos, a + 1)

JobsOf(b, goos) == JobsFrom(b, goos, 1)

\* The compile job of a pair: the environment added to os.Environ() and the
\* path given to -o.
BuildJob(n, b, tag, goos, pair) ==
    [build |-> n, goos |-> goos, goarch |-> pair.goarch, goarm |-> pair.goarm,
     env |-> {<<"GOOS", goos>>, <<"GOARCH", pair.goarch>>}
             \cup (IF pair.goarm # "" THEN {<<"GOARM", pair.goarm>>} ELSE {}),
     out |-> getOutputFilename(~b.DisablePlatformSuffix, "dist", BinaryBase(b),
                               <<tag>>, goos, pair.goarch, pair.goarm)]

\* The archive configurations of the runs of the whole build command.
BuildArchiveConfigs ==
    {<<>>,
     <<[Formats |-> <<"tar.gz">>,
        NameTemplate |-> << <<Field("Binary")>>, <<Field("Version")>>,
                            <<Field("Os")>>, <<Field("Arch")>> >>]>>,
     <<[Formats |-> <<"zip", "tar.gz">>, NameTemplate |-> <<>>],
       [Formats |-> <<"tar.gz">>,
        NameTemplate |-> << <<Field("Binary")>>, <<Field("Variant")>> >>]>>}

InitBuild ==
    /\ cfgBuilds \in {<<>>} \cup {<<b>> : b \in BuildConfigs}
                    \cup {<<b, ToolBuild>> :
                            b \in {c \in BuildConfigs : c.Goarm = <<>>}}
    /\ cfgHooks \in HookConfigs
    /\ numCPU \in 1..MaxCPU
    /\ disk \in {[exists |-> FALSE, entries |-> {}],
                 [exists |-> TRUE, entries |-> {<<"dist", <<"old">>, <<"old">>>>}]}
    /\ gitTag \in Versions
    /\ pc = "beforeHooks"
    /\ result = Pending
    /\ bpos = 0
    /\ hi = 1
    /\ workers = <<>>
    /\ egErr = NoErr
    /\ invoked = {}
    /\ completed = {}
    /\ stages = <<>>
    /\ cfgArchives \in BuildArchiveConfigs
    /\ ArchiveIdle
    /\ knownHosts = [dir |-> FALSE, file |-> FALSE, hosts |-> {}]
    /\ probes = <<>>
    /\ DeployIdle
    /\ HelperIdle
    /\ ChangelogIdle
    /\ PublishIdle

\* runHooks(cfg.Before.Hooks): one hook, or the end of the list.
BeforeHooks ==
    /\ pc = "beforeHooks"
    /\ \/ /\ hi <= Len(cfgHooks.Before)
          /\ stages' = Append(stages, "before")
          /\ \/ /\ result' = <<"error executing hook", cfgHooks.Before[hi]>>
                /\ pc' = "done"
                /\ hi' = hi
             \/ /\ hi' = hi + 1
                /\ UNCHANGED <<pc, result>>
       \/ /\ hi > Len(cfgHooks.Before)
          /\ pc' = "cleanOutDir"
          /\ UNCHANGED <<hi, result, stages>>
    /\ UNCHANGED <<cfgBuilds, cfgHooks, numCPU, disk, bpos, workers, egErr,
                   invoked, completed, gitTag>>
    /\ UNCHANGED notCompile

\* Variant: the directory is made when it is missing and kept when it is
\* there.
KeptDir(d) == [exists |-> TRUE, entries |-> d.entries]

\* The output directory after os.RemoveAll (when it was there) and
\* os.MkdirAll succeeded.
RecreatedDir(d) == [exists |-> TRUE, entries |-> {}]

\* os.RemoveAll(outDir) when it exists, and os.MkdirAll(outDir).  The stage
\* log has "remove" when os.RemoveAll is called.  An os.RemoveAll that fails
\* can have removed a part of the content.
CleanOutDir ==
    /\ pc = "cleanOutDir"
    /\ stages' = stages \o (IF disk.exists THEN <<"remove">> ELSE <<>>)
                        \o <<"clean">>
    /\ \/ /\ disk.exists
          /\ result' = <<"failed to clean output directory">>
          /\ pc' = "done"
          /\ disk' \in {[exists |-> TRUE, entries |-> es] :
                            es \in SUBSET disk.entries}
          /\ bpos' = bpos
       \/ /\ result' = <<"failed to create output directory">>
          /\ pc' = "done"
          /\ disk' = [exists |-> FALSE, entries |-> {}]
          /\ bpos' = bpos
       \/ /\ disk' = RecreatedDir(disk)
          /\ pc' = "buildSpec"
          /\ bpos' = 1
          /\ result' = result
    /\ UNCHANGED <<cfgBuilds, cfgHooks, numCPU, hi, workers, egErr, invoked,
                   completed, gitTag>>
    /\ UNCHANGED notCompile

\* Variant: eg.Go never blocks.
GoAllowedAlways(running, limit) == TRUE

\* Variant: eg.Go keeps one place of the limit free.
GoAllowedBelowLimit(running, limit) == Cardinality(running) + 1 < limit

\* Whether eg.Go starts a goroutine at once: fewer than the limit are active.
GoAllowed(running, limit) == Cardinality(running) < limit

\* Variant: eg.Wait does not wait for the goroutines.
WaitReturnsAtOnce(running, err) == TRUE

\* Variant: eg.Wait returns as soon as a goroutine returned an error.
WaitReturnsOnError(running, err) == running = {} \/ err # NoErr

\* Whether eg.Wait returns: every goroutine of the group has returned.
WaitReturns(running, err) == running = {}

\* The goroutines of the errgroup that have not returned.
Running == {w \in 1..Len(workers) : workers[w].st = "running"}

\* The goroutine of the w-th OS of the build at bpos, as eg.Go starts it: at
\* its first job, or returned when it has no job.  ret is what it returned,
\* after the number of goroutines that had returned an error before it.
NewWorker(w) ==
    LET jobs == JobsOf(cfgBuilds[bpos], cfgBuilds[bpos].Goos[w]) IN
    [st |-> IF Len(jobs) = 0 THEN "done" ELSE "running", ji |-> 1,
     ret |-> NoErr, after |-> 0]

\* The job the goroutine w is at.
JobAt(w, ji) ==
    LET b == cfgBuilds[bpos] IN
    BuildJob(bpos, b, gitTag, b.Goos[w], JobsOf(b, b.Goos[w])[ji])

\* invoked after cmd.Run was called for job j.
Invoke(inv, j) ==
    inv \cup {[job |-> j, n |-> 1 + Cardinality({e \in inv : e.job = j})]}

\* One iteration of the loop over cfg.Builds up to the errgroup: the binary
\* name and the ldflags templates.
BuildSpecStart ==
    /\ pc = "buildSpec"
    /\ bpos <= Len(cfgBuilds)
    /\ stages' = Append(stages, "build")
    /\ LET e == LdflagsError(cfgBuilds[bpos]) IN
       IF e # NoErr
       THEN /\ result' = e
            /\ pc' = "done"
       ELSE /\ result' = result
            /\ pc' = IF Len(cfgBuilds[bpos].Goos) = 0 THEN "wait" ELSE "spawn"
    /\ workers' = <<>>
    /\ egErr' = NoErr
    /\ UNCHANGED <<cfgBuilds, cfgHooks, numCPU, disk, bpos, hi, invoked,
                   completed, gitTag>>
    /\ UNCHANGED notCompile

\* eg.Go for the next OS: it blocks while numCPU goroutines are running.  The
\* goroutine starts its first job.
Spawn ==
    /\ pc = "spawn"
    /\ GoAllowed(Running, numCPU)
    /\ LET w == Len(workers) + 1
           nw == NewWorker(w)
       IN /\ workers' = Append(workers, nw)
          /\ invoked' = IF nw.st = "running" THEN Invoke(invoked, JobAt(w, 1))
                        ELSE invoked
          /\ pc' = IF w = Len(cfgBuilds[bpos].Goos) THEN "wait" ELSE "spawn"
    /\ UNCHANGED <<cfgBuilds, cfgHooks, numCPU, disk, bpos, hi, egErr, completed,
                   stages, gitTag, result>>
    /\ UNCHANGED notCompile

\* The errors of cmd.Run: of the compiler, or of starting it.
RunFailures == {"exit status 1", "exec: go: executable file not found"}

\* Variant: the error a goroutine returns is lost.
DroppedError(err, new) == err

\* The error the errgroup keeps when a goroutine returns the error new: the
\* first one.
FirstError(err, new) == IF err = NoErr THEN new ELSE err

\* cmd.Run of the job of goroutine w returns.  On an error the goroutine
\* returns it; else it starts its next job, or returns nil after the last.
FinishJob(w) ==
    /\ workers[w].st = "running"
    /\ LET j == JobAt(w, workers[w].ji)
           b == cfgBuilds[bpos]
           last == workers[w].ji = Len(JobsOf(b, b.Goos[w]))
       IN \/ \E failure \in RunFailures :
             /\ completed' = completed \cup {[job |-> j, ok |-> FALSE]}
             /\ workers' = [workers EXCEPT
                    ![w].st = "done",
                    ![w].ret = <<"build error", failure>>,
                    ![w].after = Cardinality({v \in 1..Len(workers) :
                                                workers[v].ret # NoErr})]
             /\ egErr' = FirstError(egErr, <<"build error", failure>>)
             /\ UNCHANGED <<disk, invoked>>
          \/ /\ completed' = completed \cup {[job |-> j, ok |-> TRUE]}
             /\ disk' = [disk EXCEPT !.entries = @ \cup {j.out}]
             /\ workers' = [workers EXCEPT
                    ![w].st = IF last THEN "done" ELSE "running",
                    ![w].ji = IF last THEN @ ELSE @ + 1]
             /\ invoked' = IF last THEN invoked
                           ELSE Invoke(invoked, JobAt(w, workers[w].ji + 1))
             /\ egErr' = egErr
    /\ UNCHANGED <<cfgBuilds, cfgHooks, numCPU, bpos, hi, stages, gitTag, pc,
                   result>>
    /\ UNCHANGED notCompile

\* eg.Wait returns once every goroutine returned, with the first error.
Wait ==
    /\ pc = "wait"
    /\ WaitReturns(Running, egErr)
    /\ IF egErr # NoErr
       THEN /\ result' = Wrap("build error", egErr)
            /\ pc' = "done"
            /\ bpos' = bpos
       ELSE /\ result' = result
            /\ pc' = "buildSpec"
            /\ bpos' = bpos + 1
    /\ UNCHANGED <<cfgBuilds, cfgHooks, numCPU, disk, hi, workers, egErr,
                   invoked, completed, stages, gitTag>>
    /\ UNCHANGED notCompile

\* The loop over cfg.Builds is over: createArchives is called.
BuildsDone ==
    /\ pc = "buildSpec"
    /\ bpos > Len(cfgBuilds)
    /\ pc' = "createArchives"
    /\ UNCHANGED <<cfgBuilds, cfgHooks, numCPU, disk, bpos, hi, workers, egErr,
                   invoked, completed, stages, gitTag, result>>
    /\ UNCHANGED notCompile

(***************************************************************************)
(* createArchives.  The output directory holds files <<dir, name>> and     *)
(* files <<dir, name, file>> inside the subdirectory name; a name is the   *)
(* sequence of its "_"-free segments.                                      *)
(***************************************************************************)
\* The segments the model uses, in byte order.  A segment that is a prefix of
\* another is followed in the longer one by a character above "_", or by
\* ".tar.gz" (see Extends), so that the order of names by segments is the
\* order of the joined strings.
SegOrder ==
    <<"4", "4.tar.gz", "5", "5.tar.gz", "6", "6.tar.gz", "7", "7.tar.gz", "8",
      "8.tar.gz", "a", "amd64", "amd64.tar.gz", "app", "arm", "arm.tar.gz",
      "b", "c", "darwin", "darwin.tar.gz", "freebsd", "freebsd.tar.gz",
      "linux", "linux.tar.gz", "my", "myapp", "notes", "old", "readme.txt",
      "tool", "v1.2.0", "windows", "windows.tar.gz">>

SegRank(s) == CHOOSE i \in 1..Len(SegOrder) : SegOrder[i] = s

\* Whether the segment x is the segment y followed by ".tar.gz".
Extends(x, y) == x = y \o ".tar.gz"

\* The order of file names os.ReadDir sorts by.  Where one name has the
\* segment y and the other y.tar.gz, "." is below the "_" that follows y in a
\* longer name, and a name that ends with y is a prefix of the other.
NameBefore(a, b) ==
    LET n == IF Len(a) < Len(b) THEN Len(a) ELSE Len(b)
        d == {i \in 1..n : a[i] # b[i]}
    IN IF d = {} THEN Len(a) < Len(b)
       ELSE LET i == CHOOSE x \in d : \A y \in d : x <= y
            IN IF Extends(a[i], b[i]) THEN Len(b) > i
               ELSE IF Extends(b[i], a[i]) THEN Len(a) = i
               ELSE SegRank(a[i]) < SegRank(b[i])

RECURSIVE SortNames(_)
SortNames(S) ==
    IF S = {} THEN <<>>
    ELSE LET m == CHOOSE x \in S : \A y \in S \ {x} : NameBefore(x, y)
         IN <<m>> \o SortNames(S \ {m})

\* Whether the entry name of the output directory is a directory.
IsDir(d, name) == \E e \in d.entries : e[2] = name /\ Len(e) = 3

\* os.ReadDir(artifactsDir): the immediate entries, sorted by name.
ReadDir(d) ==
    LET names == SortNames({e[2] : e \in d.entries})
    IN [i \in 1..Len(names) |-> [name |-> names[i], isDir |-> IsDir(d, names[i])]]

\* The number of "_"-separated parts a name must have to be archived.
MinParts == 4

\* strings.Split(fileName, "_").
SplitName(fileName) == fileName

\* tmplData of createArchives for a name of at least MinParts parts.
ArchiveTemplateData(fileName) ==
    LET parts == SplitName(fileName)
    IN [Binary |-> parts[1], Version |-> parts[2], Os |-> parts[3],
        Arch |-> parts[4]]

\* An entry of cfg.Archives.  A name template is the sequence of its parts
\* between "_", each a sequence of template pieces; <<>> is the empty string.
ArchiveSpec(formats, tmpl) == [Formats |-> formats, NameTemplate |-> tmpl]

FullNameTemplate ==
    << <<Field("Binary")>>, <<Field("Version")>>, <<Field("Os")>>,
       <<Field("Arch")>> >>

\* The archive configurations the model draws from.
ArchiveConfigs ==
    {<<>>,
     <<ArchiveSpec(<<"tar.gz">>, FullNameTemplate)>>,
     <<ArchiveSpec(<<"tar.gz">>, <<>>)>>,
     <<ArchiveSpec(<<"zip">>, FullNameTemplate)>>,
     <<ArchiveSpec(<<"zip", "tar.gz">>, <<>>)>>,
     <<ArchiveSpec(<<"tar.gz">>, <<>>),
       ArchiveSpec(<<"tar.gz">>, << <<Field("Binary"), BadAction>> >>)>>,
     <<ArchiveSpec(<<"tar.gz">>,
                   << <<Field("Binary")>>, <<Field("Variant")>> >>)>>,
     <<ArchiveSpec(<<"tar.gz">>,
                   << <<Field("Binary"), Lit("-"), Field("Version")>> >>),
       ArchiveSpec(<<"tar.gz">>, <<>>)>>}

\* The pieces of a name template, in order.
RECURSIVE Pieces(_)
Pieces(tmpl) == IF tmpl = <<>> THEN <<>> ELSE Head(tmpl) \o Pieces(Tail(tmpl))

\* The error of rendering the name template of an archive entry on
\* ArchiveTemplateData: of Parse, or of Execute for a field the struct lacks.
ArchiveNameError(archive) ==
    LET ps == Pieces(archive.NameTemplate) IN
    IF ParseError(ps) # NoErr
    THEN Wrap("failed to parse archive name template", ParseError(ps))
    ELSE IF \E k \in 1..Len(ps) :
                /\ ps[k].kind = "field"
                /\ ps[k].v \notin {"Binary", "Version", "Os", "Arch"}
    THEN <<"failed to execute archive name template">>
    ELSE NoErr

RECURSIVE ConcatAll(_)
ConcatAll(q) == IF q = <<>> THEN "" ELSE Head(q) \o ConcatAll(Tail(q))

\* Template.Execute of a name template that renders without error.
ExecuteStruct(tmpl, data) ==
    [p \in 1..Len(tmpl) |->
        ConcatAll([t \in 1..Len(tmpl[p]) |->
            IF tmpl[p][t].kind = "lit" THEN tmpl[p][t].v
            ELSE data[tmpl[p][t].v]])]

\* Variant: the name template is not used.
ArchiveNameRaw(archive, fileName) == fileName

\* archiveName of createArchives: the rendered template, or the name of the
\* entry when the entry of cfg.Archives has no template.
ArchiveName(archive, fileName) ==
    IF archive.NameTemplate # <<>>
    THEN ExecuteStruct(archive.NameTemplate, ArchiveTemplateData(fileName))
    ELSE fileName

\* archiveName + "." + format
ArchiveFileName(archiveName, format) ==
    SubSeq(archiveName, 1, Len(archiveName) - 1)
        \o <<archiveName[Len(archiveName)] \o "." \o format>>

\* Whether the loop over files takes the entry up: len(parts) >= 4.
Archivable(fileName) == Len(SplitName(fileName)) >= MinParts

\* The position the loops of createArchives stop at next, from (f, a, k): the
\* end of files (f > Len(files)), a template that does not render (k = 0), or
\* a format of an archive entry for an entry of the directory (k >= 1).  Names
\* of fewer than MinParts parts and exhausted lists are passed over.
RECURSIVE LoopPos(_, _, _, _, _)
LoopPos(fs, archives, f, a, k) ==
    IF f > Len(fs) THEN [f |-> f, a |-> 1, k |-> 0]
    ELSE IF ~Archivable(fs[f].name) \/ a > Len(archives)
    THEN LoopPos(fs, archives, f + 1, 1, 0)
    ELSE IF k = 0
    THEN IF ArchiveNameError(archives[a]) # NoErr
         THEN [f |-> f, a |-> a, k |-> 0]
         ELSE LoopPos(fs, archives, f, a, 1)
    ELSE IF k > Len(archives[a].Formats)
    THEN LoopPos(fs, archives, f, a + 1, 0)
    ELSE [f |-> f, a |-> a, k |-> k]

\* The goroutines of the errgroup of createArchives that have not returned.
ArchiveRunning == {w \in 1..Len(aworkers) : aworkers[w].st = "running"}

\* Variant: the error of createArchives is logged and the build goes on.
ArchivesFailLogged(err) ==
    /\ result' = result
    /\ pc' = "afterHooks"
    /\ hi' = 1

\* createArchives returns err to buildBinaries.
ArchivesFail(err) ==
    /\ result' = Wrap("failed to create archives", err)
    /\ pc' = "done"
    /\ hi' = hi

\* createArchives returns nil to buildBinaries.
ArchivesReturn ==
    /\ result' = result
    /\ pc' = "afterHooks"
    /\ hi' = 1

\* createArchives up to the loop over files: nothing to do without archive
\* entries; else the directory is read.
CreateArchives ==
    /\ pc = "createArchives"
    /\ stages' = Append(stages, "archive")
    /\ IF Len(cfgArchives) = 0
       THEN /\ ArchivesReturn
            /\ UNCHANGED <<files, apos>>
       ELSE \/ /\ ArchivesFail(<<"failed to read artifacts directory">>)
               /\ UNCHANGED <<files, apos>>
            \/ /\ files' = ReadDir(disk)
               /\ apos' = LoopPos(files', cfgArchives, 1, 1, 0)
               /\ pc' = "archiveLoop"
               /\ UNCHANGED <<result, hi>>
    /\ UNCHANGED <<cfgBuilds, cfgHooks, numCPU, disk, bpos, workers, egErr,
                   invoked, completed, gitTag, cfgArchives, archivedFiles,
                   aworkers, aErr, removals>>
    /\ UNCHANGED notBuild

\* The name template of the archive entry at apos does not render:
\* createArchives returns the error (the goroutines started go on).
ArchiveTemplateError ==
    /\ pc = "archiveLoop"
    /\ apos.f <= Len(files)
    /\ apos.k = 0
    /\ ArchivesFail(ArchiveNameError(cfgArchives[apos.a]))
    /\ UNCHANGED <<cfgBuilds, cfgHooks, numCPU, disk, bpos, workers, egErr,
                   invoked, completed, stages, gitTag, cfgArchives, files, apos,
                   archivedFiles, aworkers, aErr, removals>>
    /\ UNCHANGED notBuild

\* Variant: every format is taken as an archive to write.
SupportedAny(format) == TRUE

\* The switch over the format of createArchives: "tar.gz" is the one case.
Supported(format) == format = "tar.gz"

\* The format at apos is "tar.gz": the entry is marked as archived and eg.Go
\* starts createTarGz, once fewer than numCPU goroutines are active.
ArchiveGo ==
    /\ pc = "archiveLoop"
    /\ apos.f <= Len(files)
    /\ apos.k >= 1
    /\ Supported(cfgArchives[apos.a].Formats[apos.k])
    /\ GoAllowed(ArchiveRunning, numCPU)
    /\ LET fileName == files[apos.f].name
           archiveName == ArchiveName(cfgArchives[apos.a], fileName)
       IN /\ archivedFiles' = archivedFiles \cup {fileName}
          /\ aworkers' = Append(aworkers,
                [src |-> fileName,
                 dst |-> ArchiveFileName(archiveName, "tar.gz"),
                 item |-> apos, st |-> "running"])
    /\ apos' = LoopPos(files, cfgArchives, apos.f, apos.a, apos.k + 1)
    /\ UNCHANGED <<cfgBuilds, cfgHooks, numCPU, disk, bpos, hi, workers, egErr,
                   invoked, completed, stages, gitTag, cfgArchives, files, aErr,
                   removals, pc, result>>
    /\ UNCHANGED notBuild

\* The format at apos is not "tar.gz": it is logged and passed over.
ArchiveUnsupported ==
    /\ pc = "archiveLoop"
    /\ apos.f <= Len(files)
    /\ apos.k >= 1
    /\ ~Supported(cfgArchives[apos.a].Formats[apos.k])
    /\ apos' = LoopPos(files, cfgArchives, apos.f, apos.a, apos.k + 1)
    /\ UNCHANGED <<cfgBuilds, cfgHooks, numCPU, disk, bpos, hi, workers, egErr,
                   invoked, completed, stages, gitTag, cfgArchives, files,
                   archivedFiles, aworkers, aErr, removals, pc, result>>
    /\ UNCHANGED notBuild

\* The loop over files is over: eg.Wait is called.
ArchiveLoopDone ==
    /\ pc = "archiveLoop"
    /\ apos.f > Len(files)
    /\ pc' = "archiveWait"
    /\ UNCHANGED <<cfgBuilds, cfgHooks, numCPU, disk, bpos, hi, workers, egErr,
                   invoked, completed, stages, gitTag, result>>
    /\ UNCHANGED archiveVars
    /\ UNCHANGED notBuild

\* createTarGz of goroutine w returns: with an error before or after os.Create
\* made the archive file, or with nil and the archive written.
ArchiveWorkerDone(w) ==
    /\ aworkers[w].st = "running"
    /\ \/ /\ aworkers' = [aworkers EXCEPT ![w].st = "failed"]
          /\ aErr' = IF aErr = NoErr
                     THEN <<"failed to create tar.gz archive">> ELSE aErr
          /\ \/ disk' = disk
             \/ disk' = [disk EXCEPT !.entries = @ \cup {<<"dist", aworkers[w].dst>>}]
       \/ /\ aworkers' = [aworkers EXCEPT ![w].st = "ok"]
          /\ aErr' = aErr
          /\ disk' = [disk EXCEPT !.entries = @ \cup {<<"dist", aworkers[w].dst>>}]
    /\ UNCHANGED <<cfgBuilds, cfgHooks, numCPU, bpos, hi, workers, egErr,
                   invoked, completed, stages, gitTag, cfgArchives, files, apos,
                   archivedFiles, removals, pc, result>>
    /\ UNCHANGED notBuild

\* Variant: the error eg.Wait returned is not looked at.
WaitErrorIgnored(err) == FALSE

\* "if err := eg.Wait(); err != nil" of createArchives.
WaitError(err) == err # NoErr

\* eg.Wait of createArchives returns: the first error, or nil and the cleanup
\* begins.
ArchiveWait ==
    /\ pc = "archiveWait"
    /\ WaitReturns(ArchiveRunning, aErr)
    /\ IF WaitError(aErr)
       THEN /\ ArchivesFail(Wrap("error creating archives", aErr))
            /\ apos' = apos
       ELSE /\ pc' = "archiveCleanup"
            /\ apos' = [f |-> 1, a |-> 0, k |-> 0]
            /\ UNCHANGED <<result, hi>>
    /\ UNCHANGED <<cfgBuilds, cfgHooks, numCPU, disk, bpos, workers, egErr,
                   invoked, completed, stages, gitTag, cfgArchives, files,
                   archivedFiles, aworkers, aErr, removals>>
    /\ UNCHANGED notBuild

\* Variant: the cleanup removes every entry.
ToRemoveAll(fs, archived, f) == f

\* The first position from f of an entry the cleanup removes (Len(fs) + 1 when
\* none is left): the entries not marked in archivedFiles are passed over.
RECURSIVE ToRemove(_, _, _)
ToRemove(fs, archived, f) ==
    IF f > Len(fs) \/ fs[f].name \in archived THEN f
    ELSE ToRemove(fs, archived, f + 1)

\* The output directory without the entry name and what is inside it.
Removed(d, name) == [d EXCEPT !.entries = {e \in @ : e[2] # name}]

\* One iteration of the cleanup loop: os.RemoveAll or os.Remove of an archived
\* entry; a failure is logged.  After the last entry createArchives returns nil.
ArchiveCleanup ==
    /\ pc = "archiveCleanup"
    /\ LET f == ToRemove(files, archivedFiles, apos.f) IN
       IF f > Len(files)
       THEN /\ ArchivesReturn
            /\ UNCHANGED <<disk, removals, apos>>
       ELSE /\ apos' = [apos EXCEPT !.f = f + 1]
            /\ UNCHANGED <<pc, result, hi>>
            /\ \/ /\ disk' = Removed(disk, files[f].name)
                  /\ removals' = Append(removals,
                        [name |-> files[f].name, ok |-> TRUE,
                         running |-> ArchiveRunning])
               \/ /\ disk' = disk
                  /\ removals' = Append(removals,
                        [name |-> files[f].name, ok |-> FALSE,
                         running |-> ArchiveRunning])
    /\ UNCHANGED <<cfgBuilds, cfgHooks, numCPU, bpos, workers, egErr, invoked,
                   completed, stages, gitTag, cfgArchives, files, archivedFiles,
                   aworkers, aErr>>
    /\ UNCHANGED notBuild

\* runHooks(cfg.After.Hooks): one hook, or the end of the list.
AfterHooks ==
    /\ pc = "afterHooks"
    /\ \/ /\ hi <= Len(cfgHooks.After)
          /\ stages' = Append(stages, "after")
          /\ \/ /\ result' = <<"error executing hook", cfgHooks.After[hi]>>
                /\ pc' = "done"
                /\ hi' = hi
             \/ /\ hi' = hi + 1
                /\ UNCHANGED <<pc, result>>
       \/ /\ hi > Len(cfgHooks.After)
          /\ result' = NoErr
          /\ pc' = "done"
          /\ UNCHANGED <<hi, stages>>
    /\ UNCHANGED <<cfgBuilds, cfgHooks, numCPU, disk, bpos, workers, egErr,
                   invoked, completed, gitTag>>
    /\ UNCHANGED notCompile

NextBuild ==
    \/ BeforeHooks
    \/ CleanOutDir
    \/ BuildSpecStart
    \/ Spawn
    \/ \E w \in 1..Len(workers) : FinishJob(w)
    \/ Wait
    \/ BuildsDone
    \/ CreateArchives
    \/ ArchiveTemplateError
    \/ ArchiveGo
    \/ ArchiveUnsupported
    \/ ArchiveLoopDone
    \/ \E w \in 1..Len(aworkers) : ArchiveWorkerDone(w)
    \/ ArchiveWait
    \/ ArchiveCleanup
    \/ AfterHooks

SpecBuild == InitBuild /\ [][NextBuild]_vars

(***************************************************************************)
(* createArchives on a directory of any content: buildBinaries at its call *)
(* of createArchives.                                                      *)
(***************************************************************************)
\* The entries the directory is drawn from: outputs of compile jobs, and
\* files that are none.
DirEntries ==
    {<<"dist", <<"myapp", "v1.2.0", "linux", "amd64">>, <<"myapp">>>>,
     <<"dist", <<"myapp", "v1.2.0", "linux", "arm", "6">>, <<"myapp">>>>,
     <<"dist", <<"myapp", "v1.2.0", "linux", "arm", "7">>, <<"myapp">>>>,
     <<"dist", <<"myapp", "v1.2.0">>, <<"myapp">>>>,
     <<"dist", <<"readme.txt">>>>,
     <<"dist", <<"notes", "a", "b", "c">>>>,
     <<"dist", <<"myapp", "v1.2.0", "linux", "amd64.tar.gz">>>>}

InitArchive ==
    /\ cfgArchives \in ArchiveConfigs
    /\ disk \in {[exists |-> TRUE, entries |-> es] :
                    es \in {x \in SUBSET DirEntries : Cardinality(x) <= MaxFiles}}
    /\ numCPU \in 1..MaxCPU
    /\ cfgHooks \in HookConfigs
    /\ cfgBuilds = <<>>
    /\ gitTag \in Versions
    /\ pc = "createArchives"
    /\ result = Pending
    /\ bpos = 1
    /\ hi = 1
    /\ workers = <<>>
    /\ egErr = NoErr
    /\ invoked = {}
    /\ completed = {}
    /\ stages = <<"clean">>
    /\ ArchiveIdle
    /\ knownHosts = [dir |-> FALSE, file |-> FALSE, hosts |-> {}]
    /\ probes = <<>>
    /\ DeployIdle
    /\ HelperIdle
    /\ ChangelogIdle
    /\ PublishIdle

NextArchive ==
    \/ CreateArchives
    \/ ArchiveTemplateError
    \/ ArchiveGo
    \/ ArchiveUnsupported
    \/ ArchiveLoopDone
    \/ \E w \in 1..Len(aworkers) : ArchiveWorkerDone(w)
    \/ ArchiveWait
    \/ ArchiveCleanup
    \/ AfterHooks

SpecArchive == InitArchive /\ [][NextArchive]_vars

(***************************************************************************)
(* helpers.ExpandPath.  A path is the sequence of its characters.          *)
(***************************************************************************)
MaxPathLen == 4

PathChars == {"~", "/", "a"}

\* What user.Current() can return: a user with a home directory, or an error.
Users ==
    {[err |-> NoErr, HomeDir |-> <<"/", "h">>],
     [err |-> NoErr, HomeDir |-> <<"/", "~", "u">>],
     [err |-> <<"user: Current requires cgo or $USER set">>, HomeDir |-> <<>>]}

\* strings.HasPrefix
HasPrefix(s, prefix) ==
    /\ Len(s) >= Len(prefix)
    /\ SubSeq(s, 1, Len(prefix)) = prefix

\* strings.Replace with the count ignored: every occurrence is replaced.
RECURSIVE ReplaceEvery(_, _, _, _)
ReplaceEvery(s, old, new, n) ==
    IF Len(s) < Len(old) THEN s
    ELSE IF HasPrefix(s, old)
         THEN new \o ReplaceEvery(SubSeq(s, Len(old) + 1, Len(s)), old, new, n)
         ELSE <<Head(s)>> \o ReplaceEvery(Tail(s), old, new, n)

\* strings.Replace(s, old, new, n) for a non-empty old and n >= 0: the first
\* n occurrences of old, from the left and not overlapping, are replaced.
RECURSIVE Replace(_, _, _, _)
Replace(s, old, new, n) ==
    IF n = 0 \/ Len(s) < Len(old) THEN s
    ELSE IF HasPrefix(s, old)
         THEN new \o Replace(SubSeq(s, Len(old) + 1, Len(s)), old, new, n - 1)
         ELSE <<Head(s)>> \o Replace(Tail(s), old, new, n)

\* ExpandPath(path) where user.Current() returns u: the pair it returns.
ExpandPath(p, u) ==
    IF HasPrefix(p, <<"~", "/">>)
    THEN IF u.err # NoErr
         THEN [path |-> <<>>, err |-> u.err]
         ELSE [path |-> Replace(p, <<"~">>, u.HomeDir, 1), err |-> NoErr]
    ELSE [path |-> p, err |-> NoErr]

\* A call of ExpandPath on any short path.
InitExpand ==
    /\ path \in SeqsUpTo(PathChars, MaxPathLen)
    /\ usr \in Users
    /\ expanded = [path |-> <<>>, err |-> Pending]
    /\ pc = "ExpandPath"
    /\ result = Pending
    /\ gitTag \in Versions
    /\ knownHosts = [dir |-> FALSE, file |-> FALSE, hosts |-> {}]
    /\ probes = <<>>
    /\ DeployIdle
    /\ PublishIdle
    /\ BuildIdle
    /\ ChangelogIdle

CallExpandPath ==
    /\ pc = "ExpandPath"
    /\ expanded' = ExpandPath(path, usr)
    /\ pc' = "returned"
    /\ UNCHANGED <<path, usr, changelogVars, gitTag, knownHosts, probes,
                   result, deployOnly, publishOnly, buildOnly>>

NextExpand == CallExpandPath

SpecExpand == InitExpand /\ [][NextExpand]_vars

(***************************************************************************)
(* The build command under fair scheduling: while a step is possible (a    *)
(* compiler process or an archive worker can return, or buildBinaries can  *)
(* go on) a step is taken.                                                 *)
(***************************************************************************)
\* A build of one build configuration, with no hooks and no output directory
\* left by an earlier run.
InitOneBuild ==
    /\ InitBuild
    /\ Len(cfgBuilds) = 1
    /\ cfgHooks = [Before |-> <<>>, After |-> <<>>]
    /\ ~disk.exists

FairBuild == InitOneBuild /\ [][NextBuild]_vars /\ WF_vars(NextBuild)

(***************************************************************************)
(* A release: the build command, and after it returned nil the publish     *)
(* command on the output directory as the build left it.                   *)
(***************************************************************************)
InitRelease == InitOneBuild

\* main is run again, with the publish command: publishArtifacts is called
\* with the configured sinks and finds the output directory of the build.
StartPublish ==
    /\ pc = "done"
    /\ result = NoErr
    /\ stages # <<>>
    /\ cfgBlobs = <<>>
    /\ cfgBlobs' \in {<<c>> : c \in BlobConfigs}
    /\ awsCreds' \in BOOLEAN
    /\ outDir' = ReadDir(disk)
    /\ pc' = "publishArtifacts"
    /\ result' = Pending
    /\ UNCHANGED <<publishName, remote, blobs, bi, fi, netops, processed,
                   finished, gitTag, knownHosts, probes, deployOnly, buildOnly,
                   helperVars, changelogVars>>

NextRelease == NextBuild \/ StartPublish \/ NextPublish

SpecRelease == InitRelease /\ [][NextRelease]_vars

(***************************************************************************)
(* The release changelog command.  A tag is the sequence of its            *)
(* characters; tags holds the lines that "git tag -l --sort=-v:refname"    *)
(* prints, split at the line ends.                                         *)
(***************************************************************************)
MaxTags == 3

Digits == {"0", "1", "2"}

\* The value getGitTag and both previous-tag functions fall back to.
ZeroTag == <<"0", ".", "0", ".", "0">>

\* The tags a repository may hold, by descending version.
TagUniverse ==
    << <<"v", "2", ".", "1", ".", "0", "-", "r", "c">>,
       <<"v", "2", ".", "0", ".", "0">>,
       <<"v", "1", ".", "2">>,
       <<"v", "1", ".", "1", ".", "0">>,
       <<"1", ".", "0", ".", "0">> >>

\* strings.Split(strings.TrimSpace(out), "\n"): no output gives one empty
\* string.
TagLists ==
    {IF Second(s) = <<>> THEN << <<>> >> ELSE Second(s) :
        s \in {t \in SubSeqs(TagUniverse) : Len(t) <= MaxTags}}

\* The fields of s between the dots.
RECURSIVE SplitDots(_)
SplitDots(s) ==
    IF \A k \in 1..Len(s) : s[k] # "."
    THEN <<s>>
    ELSE LET d == CHOOSE k \in 1..Len(s) :
                    s[k] = "." /\ \A m \in 1..(k - 1) : s[m] # "."
         IN <<SubSeq(s, 1, d - 1)>> \o SplitDots(SubSeq(s, d + 1, Len(s)))

\* One or more digits.
Number(s) == s # <<>> /\ \A k \in 1..Len(s) : s[k] \in Digits

\* stableTagRegex.MatchString: ^v\d+\.\d+\.\d+$
StableTag(tag) ==
    /\ tag # <<>>
    /\ tag[1] = "v"
    /\ LET f == SplitDots(Tail(tag)) IN
       Len(f) = 3 /\ \A k \in 1..3 : Number(f[k])

\* The loop of getPreviousStableGitTag from entry i on.
RECURSIVE StableLoop(_, _, _, _)
StableLoop(ts, current, i, foundCurrent) ==
    IF i > Len(ts) THEN ZeroTag
    ELSE IF ~foundCurrent /\ ts[i] = current
    THEN StableLoop(ts, current, i + 1, TRUE)
    ELSE IF StableTag(ts[i]) THEN ts[i]
    ELSE StableLoop(ts, current, i + 1, foundCurrent)

getPreviousStableGitTag(ts, current) ==
    IF Len(ts) = 0 THEN ZeroTag ELSE StableLoop(ts, current, 1, FALSE)

\* getPreviousGitTag: the entry behind the current tag.
getPreviousGitTag(ts, current) ==
    IF Len(ts) < 2 THEN ZeroTag
    ELSE IF \E i \in 1..(Len(ts) - 1) : ts[i] = current
    THEN ts[(CHOOSE i \in 1..(Len(ts) - 1) :
                ts[i] = current /\ \A m \in 1..(i - 1) : ts[m] # current) + 1]
    ELSE ZeroTag

InitChangelog ==
    /\ tags \in TagLists
    /\ currentTag = <<>>
    /\ previousTag = Pending
    /\ pc = "changelog"
    /\ result = Pending
    /\ gitTag \in Versions
    /\ knownHosts = [dir |-> FALSE, file |-> FALSE, hosts |-> {}]
    /\ probes = <<>>
    /\ DeployIdle
    /\ PublishIdle
    /\ BuildIdle
    /\ HelperIdle

\* The changelog action: getGitTag ("git describe --tags --abbrev=0") gives
\* the nearest tag that HEAD reaches, which is any tag of the list, or the
\* default when it reaches none; the --stable flag picks the function.
ChangelogGetGitTag ==
    /\ pc = "changelog"
    /\ currentTag' \in {tags[k] : k \in {m \in 1..Len(tags) : tags[m] # <<>>}}
                         \cup {ZeroTag}
    /\ pc' \in {"getPreviousStableGitTag", "getPreviousGitTag"}
    /\ UNCHANGED <<tags, previousTag, helperVars, gitTag, knownHosts, probes,
                   result, deployOnly, publishOnly, buildOnly>>

CallGetPreviousStableGitTag ==
    /\ pc = "getPreviousStableGitTag"
    /\ previousTag' = getPreviousStableGitTag(tags, currentTag)
    /\ pc' = "stableReturned"
    /\ UNCHANGED <<tags, currentTag, helperVars, gitTag, knownHosts, probes,
                   result, deployOnly, publishOnly, buildOnly>>

CallGetPreviousGitTag ==
    /\ pc = "getPreviousGitTag"
    /\ previousTag' = getPreviousGitTag(tags, currentTag)
    /\ pc' = "previousReturned"
    /\ UNCHANGED <<tags, currentTag, helperVars, gitTag, knownHosts, probes,
                   result, deployOnly, publishOnly, buildOnly>>

NextChangelog ==
    \/ ChangelogGetGitTag
    \/ CallGetPreviousStableGitTag
    \/ CallGetPreviousGitTag

SpecChangelog == InitChangelog /\ [][NextChangelog]_vars

(***************************************************************************)
(* The program: main dispatches to one of the commands.                    *)
(***************************************************************************)
Init == InitDeploy \/ InitPublish \/ InitBuild \/ InitArchive \/ InitChangelog

Next == NextDeploy \/ NextPublish \/ NextBuild \/ NextChangelog

Spec == Init /\ [][Next]_vars

(***************************************************************************)
(* Properties of the deploy command.                                       *)
(***************************************************************************)
RanOf(d) == SelectSeq(ran, LAMBDA r : r.deploy = d)

AlertsOf(d) == SelectSeq(alerts, LAMBDA a : a.deploy = d)

ReturnsOf(d) == SelectSeq(returns, LAMBDA r : r.deploy = d)

Deploys == 1..Len(cfgDeploys)

\* The deploy d connected, ran all of its commands and each of them succeeded.
AllCommandsOk(d) ==
    /\ \E k \in 1..Len(conns) : conns[k].deploy = d /\ conns[k].ok
    /\ Len(RanOf(d)) = Len(cfgDeploys[d].Commands)
    /\ \A k \in 1..Len(RanOf(d)) : RanOf(d)[k].ok

\* C1: within a deploy the commands run in list order, command N+1 runs only
\* after command N succeeded, and a failing command is the last command of its
\* deploy and makes the deploy fail.
C1_CommandsInOrder ==
    /\ \A d \in Deploys :
        LET r == RanOf(d) IN
        /\ Len(r) <= Len(cfgDeploys[d].Commands)
        /\ \A k \in 1..Len(r) :
            /\ r[k].idx = k
            /\ r[k].cmd = cfgDeploys[d].Commands[k]
            /\ k < Len(r) => r[k].ok
        /\ (Len(r) > 0 /\ ~r[Len(r)].ok) =>
            /\ ~(pc = "run" /\ di = d)
            /\ \A j \in 1..Len(returns) :
                returns[j].deploy = d => returns[j].err # NoErr
            /\ \A j \in 1..Len(alerts) :
                alerts[j].deploy = d => alerts[j].data.Status = "Failed"
    /\ \A i, j \in 1..Len(ran) : i < j => ran[i].deploy <= ran[j].deploy

\* C1 witness: of three commands the second failed and the deploy is over.
C1_Witness ==
    /\ pc = "done"
    /\ \E d \in Deploys :
        /\ Len(cfgDeploys[d].Commands) = 3
        /\ Len(RanOf(d)) = 2
        /\ ~RanOf(d)[2].ok

\* C2: an executeDeploy that returned has called sendAlert exactly once, with
\* the deploy's name, the current version, the status of the outcome and, on
\* failure, the error of the deploy; no alert exists for a deploy whose
\* outcome is still open, and a deploy whose command failed is notified as
\* Failed with that command's error, never as Success.
C2_OneAlertPerDeploy ==
    /\ Len(alerts) = Len(returns)
    /\ \A k \in 1..Len(alerts) :
        LET a == alerts[k]
            d == a.deploy
        IN /\ returns[k].deploy = d
           /\ Len(AlertsOf(d)) = 1
           /\ a.data.AppName = cfgDeploys[d].Name
           /\ a.data.Version = gitTag
           /\ a.data.Status = IF returns[k].err # NoErr THEN "Failed" ELSE "Success"
           /\ a.data.Error = returns[k].err
           /\ a.data.Status = "Success" <=> AllCommandsOk(d)
           /\ \A j \in 1..Len(RanOf(d)) :
                ~RanOf(d)[j].ok =>
                    a.data.Error = <<"command failed", RanOf(d)[j].cmd, "exit status 1">>
    /\ pc \in {"executeDeploy", "checkKnownHost", "loadKey", "connect", "run",
               "sendAlert"} => Len(AlertsOf(di)) = 0

\* C2 witness: commands [A, B, C], B failed, the deploy returned.
C2_Witness ==
    \E k \in 1..Len(alerts) :
        LET d == alerts[k].deploy IN
        /\ cfgDeploys[d].Commands = <<"A", "B", "C">>
        /\ Len(RanOf(d)) = 2
        /\ ~RanOf(d)[2].ok
        /\ alerts[k].outcome = "ok"
        /\ Len(returns) = k

\* C3: what executeDeploy returns is the error of the deploy itself (nil
\* exactly when every command ran and succeeded), whatever sendAlert did, and
\* it returns only with its sendAlert call made.
C3_ReturnIgnoresAlert ==
    /\ Len(returns) <= Len(alerts)
    /\ \A k \in 1..Len(returns) :
        /\ alerts[k].deploy = returns[k].deploy
        /\ returns[k].err = alerts[k].data.Error
        /\ returns[k].err = NoErr <=> AllCommandsOk(returns[k].deploy)
        /\ returns[k].err # <<"failed to create alert sender">>
        /\ returns[k].err # <<"failed to send alerts">>

\* C3 witness: a deploy succeeded, its notification failed, nil was returned.
C3_Witness ==
    \E k \in 1..Len(returns) :
        /\ alerts[k].outcome \in {"sender", "send"}
        /\ AllCommandsOk(returns[k].deploy)
        /\ returns[k].err = NoErr

\* The deploys that took any step visible outside: a known_hosts probe, a
\* connection, a command, a notification.
Touched ==
    {conns[k].deploy : k \in 1..Len(conns)}
    \cup {ran[k].deploy : k \in 1..Len(ran)}
    \cup {alerts[k].deploy : k \in 1..Len(alerts)}
    \cup {returns[k].deploy : k \in 1..Len(returns)}

NotFound == <<"deploy configuration not found", deployName>>

NameConfigured == \E d \in Deploys : cfgDeploys[d].Name = deployName

\* What C4 says of a named deploy apart from the error of the unmatched name.
NamedDeployRunsOne ==
    deployName # "" =>
        /\ Len(returns) <= 1
        /\ \A d \in Touched : cfgDeploys[d].Name = deployName
        /\ pc = "done" /\ NameConfigured =>
            /\ Len(returns) = 1
            /\ result = returns[1].err
        /\ ~NameConfigured =>
            /\ Touched = {}
            /\ probes = <<>>

\* C4 as claimed: a named deploy runs exactly one deploy of that name, and
\* with no deploy of that name it ends with the not-found error, nothing
\* touched.
C4_Original ==
    /\ NamedDeployRunsOne
    /\ (deployName # "" /\ pc = "done" /\ ~NameConfigured) => result = NotFound

\* C4 as amended: the not-found error is returned when some deploy is
\* configured; with an empty deploy list the error is "no deploy
\* configurations found".
C4_NamedDeploy ==
    /\ NamedDeployRunsOne
    /\ (deployName # "" /\ pc = "done" /\ ~NameConfigured) =>
            result = IF Len(cfgDeploys) = 0
                     THEN <<"no deploy configurations found">>
                     ELSE NotFound

\* C4 witness: two deploys carry the name, one ran; and the unmatched name.
C4_Witness ==
    /\ deployName # ""
    /\ pc = "done"
    /\ Cardinality({d \in Deploys : cfgDeploys[d].Name = deployName}) = 2
    /\ Len(ran) > 0
    /\ Len(returns) = 1

\* C5: without a name the deploys run one at a time in configured order; a
\* failing deploy is the last one to run, is notified as Failed and fails the
\* command; every deploy before it succeeded and was notified as Success; no
\* deploy after it is probed, connected to, run or notified.
C5_AllDeploysInOrder ==
    deployName = "" =>
        /\ \A k \in 1..Len(returns) :
            /\ returns[k].deploy = k
            /\ k < Len(returns) =>
                /\ returns[k].err = NoErr
                /\ alerts[k].data.Status = "Success"
            /\ returns[k].err # NoErr =>
                /\ alerts[k].data.Status = "Failed"
                /\ Touched \subseteq 1..k
                /\ pc \in {"deployReturn", "done"}
                /\ pc = "done" =>
                    result = Wrap("deploy failed",
                                  <<cfgDeploys[k].Name>> \o returns[k].err)
        /\ \A i, j \in 1..Len(conns) : i < j => conns[i].deploy <= conns[j].deploy
        /\ \A i, j \in 1..Len(ran) : i < j => ran[i].deploy <= ran[j].deploy
        /\ Touched \subseteq 1..di
        /\ (pc = "done" /\ result = NoErr) => Len(returns) = Len(cfgDeploys)

\* C5 witness: the first deploy succeeded, the second failed, the run is over.
C5_Witness ==
    /\ deployName = ""
    /\ pc = "done"
    /\ Len(returns) = 2
    /\ returns[1].err = NoErr
    /\ returns[2].err # NoErr
    /\ Len(RanOf(2)) > 0

(***************************************************************************)
(* Properties of the publish command.                                      *)
(***************************************************************************)
Range(q) == {q[k] : k \in 1..Len(q)}

\* The sinks of cfg.Blobs that carry the name given to publish.
Matching == {b \in 1..Len(cfgBlobs) : cfgBlobs[b].Name = publishName}

FinishedBlobs == {finished[k].blob : k \in 1..Len(finished)}

\* The sinks that were entered (publishToS3 or publishToSSH was called) and
\* have not returned.
ActiveSinks ==
    {b \in Range(processed) :
        cfgBlobs[b].Provider \in {"s3", "ssh"} /\ b \notin FinishedBlobs}

\* C6: publish with a name takes up the sinks of that name only, each once, in
\* configured order and none skipped, all of them when publish succeeds; no
\* other sink does a network operation; with no sink of that name publish
\* ends with the not-found error and has done no network operation and no
\* host-key probe.
C6_NamedPublish ==
    publishName # "" =>
        /\ Range(processed) \subseteq Matching
        /\ \A k \in 1..Len(netops) : netops[k].blob \in Matching
        /\ \A k \in 1..Len(processed) :
            /\ \A j \in 1..(k - 1) : processed[j] < processed[k]
            /\ \A b \in Matching :
                b < processed[k] => \E j \in 1..(k - 1) : processed[j] = b
        /\ (pc = "done" /\ result = NoErr) => Range(processed) = Matching
        /\ Matching = {} =>
            /\ netops = <<>>
            /\ probes = <<>>
            /\ processed = <<>>
            /\ pc = "done" =>
                result = <<"publish configuration not found", publishName>>

\* C6 witness: of two sinks one carries the name; it was published to.
C6_Witness ==
    /\ publishName # ""
    /\ Len(cfgBlobs) = 2
    /\ Cardinality(Matching) = 1
    /\ pc = "done"
    /\ result = NoErr
    /\ \E k \in 1..Len(netops) : netops[k].op \in {"PutObject", "Upload"}

\* C7: publish without a name takes up every sink in configured order, all of
\* them when publish succeeds; the network operations are in the order of the
\* sinks; a sink does its operations before it returns, only the sink taken
\* up last can be active, and so at most one sink is.
C7_SinksInOrder ==
    publishName = "" =>
        /\ \A k \in 1..Len(processed) : processed[k] = k
        /\ (pc = "done" /\ result = NoErr) => Len(processed) = Len(cfgBlobs)
        /\ \A i, j \in 1..Len(netops) : i < j => netops[i].blob <= netops[j].blob
        /\ \A i, j \in 1..Len(finished) : i < j => finished[i].blob < finished[j].blob
        /\ \A k \in 1..Len(netops) : netops[k].blob \in Range(processed)
        /\ Cardinality(ActiveSinks) <= 1
        /\ \A b \in ActiveSinks : b = processed[Len(processed)]

\* C7 witness: two sinks, both published to with uploads, publish is over.
C7_Witness ==
    /\ publishName = ""
    /\ pc = "done"
    /\ Len(finished) = 2
    /\ \A b \in {1, 2} :
        \E k \in 1..Len(netops) :
            netops[k].blob = b /\ netops[k].op \in {"PutObject", "Upload"}

(***************************************************************************)
(* Properties of the build command.                                        *)
(***************************************************************************)
InvokedOf(n) == {e \in invoked : e.job.build = n}

Triple(j) == <<j.goos, j.goarch, j.goarm>>

\* The (OS, arch) pairs of a build configuration that are not skipped.
BuiltPairs(b) ==
    {p \in Range(b.Goos) \X Range(b.Goarch) : ~(p[2] = "arm" /\ p[1] # "linux")}

\* The variants of a pair: the ARM variants for arm when some are listed, and
\* else the one job without a variant.
VariantsOf(b, arch) ==
    IF arch = "arm" /\ b.Goarm # <<>> THEN Range(b.Goarm) ELSE {""}

\* The expansion of a build configuration, as (OS, arch, variant) triples.
Expansion(b) ==
    {t \in Range(b.Goos) \X Range(b.Goarch) \X (Range(b.Goarm) \cup {""}) :
        /\ <<t[1], t[2]>> \in BuiltPairs(b)
        /\ t[3] \in VariantsOf(b, t[2])}

\* C8: no compile job is started for arm on an OS other than linux, and the
\* build fails with a build error only when a compile job failed (a skipped
\* pair is no error).
C8_NoArmOffLinux ==
    /\ \A e \in invoked : ~(e.job.goarch = "arm" /\ e.job.goos # "linux")
    /\ (pc = "done" /\ result # NoErr /\ result[1] = "build error") =>
            \E c \in completed : ~c.ok

\* C8 witness: OS [darwin], Arch [arm]: the build ended well with no job.
C8_Witness ==
    /\ Len(cfgBuilds) = 1
    /\ cfgBuilds[1].Goos = <<"darwin">>
    /\ cfgBuilds[1].Goarch = <<"arm">>
    /\ pc = "done"
    /\ result = NoErr
    /\ invoked = {}

\* What C9 says of the jobs apart from the variant in the output path: every
\* job started is a job of the expansion and is started once, GOARM is set to
\* the variant exactly for the jobs of a variant, and a build whose jobs all
\* succeeded has started each job of its expansion.
JobsAreTheExpansion ==
    /\ \A e \in invoked :
        LET j == e.job IN
        /\ e.n = 1
        /\ Triple(j) \in Expansion(cfgBuilds[j.build])
        /\ {<<"GOOS", j.goos>>, <<"GOARCH", j.goarch>>} \subseteq j.env
        /\ \A v \in Range(ArmList) :
            <<"GOARM", v>> \in j.env <=> j.goarm = v
    /\ \A n \in 1..Len(cfgBuilds) :
        n < bpos =>
            /\ {Triple(e.job) : e \in InvokedOf(n)} = Expansion(cfgBuilds[n])
            /\ Cardinality(InvokedOf(n)) = Cardinality(Expansion(cfgBuilds[n]))
            /\ \A e \in InvokedOf(n) : [job |-> e.job, ok |-> TRUE] \in completed

\* C9 as claimed: the jobs are the expansion, and the job of a variant has the
\* variant in its output path.
C9_Original ==
    /\ JobsAreTheExpansion
    /\ \A e \in invoked :
        e.job.goarm # "" => e.job.goarm \in Range(e.job.out[2])

\* C9 as amended: the job of a variant has the variant in its output path
\* when the platform suffix is enabled; with the suffix disabled the path
\* holds neither OS, arch nor variant.
C9_JobsAreExpansion ==
    /\ JobsAreTheExpansion
    /\ \A e \in invoked :
        LET b == cfgBuilds[e.job.build] IN
        /\ (e.job.goarm # "" /\ ~b.DisablePlatformSuffix) =>
                e.job.goarm \in Range(e.job.out[2])
        /\ b.DisablePlatformSuffix =>
                e.job.out[2] = BinaryBase(b) \o <<gitTag>>

\* C9 witness: two OS, amd64 and arm with two variants: the four jobs of the
\* expansion ran and the build went on.
C9_Witness ==
    /\ bpos > 1
    /\ cfgBuilds[1].Goos = <<"linux", "darwin">>
    /\ cfgBuilds[1].Goarch = <<"amd64", "arm">>
    /\ cfgBuilds[1].Goarm = <<"6", "7">>
    /\ ~cfgBuilds[1].DisablePlatformSuffix
    /\ Cardinality(InvokedOf(1)) = 4

\* C10: of two jobs of one build that differ in OS, the output paths differ
\* when the platform suffix is enabled; when it is disabled and the jobs
\* differ in OS only, the paths are the same, outDir/binary_version/binary.
C10_OutputPaths ==
    \A e1, e2 \in invoked :
        LET j1 == e1.job
            j2 == e2.job
            b == cfgBuilds[j1.build]
        IN (j1.build = j2.build /\ j1.goos # j2.goos) =>
            /\ ~b.DisablePlatformSuffix => j1.out # j2.out
            /\ (b.DisablePlatformSuffix /\ j1.goarch = j2.goarch
                    /\ j1.goarm = j2.goarm) =>
                /\ j1.out = j2.out
                /\ j1.out = <<"dist", BinaryBase(b) \o <<gitTag>>, BinaryBase(b)>>

\* C10 witness: jobs of two OS were started, with the suffix disabled.
C10_Witness ==
    \E e1, e2 \in invoked :
        /\ e1.job.build = e2.job.build
        /\ e1.job.goos # e2.job.goos
        /\ e1.job.goarch = e2.job.goarch
        /\ cfgBuilds[e1.job.build].DisablePlatformSuffix

(***************************************************************************)
(* Properties of createArchives and of the names of the build outputs.     *)
(***************************************************************************)
ArchiveEntered == \E k \in 1..Len(stages) : stages[k] = "archive"

ArchivesFailed ==
    /\ pc = "done"
    /\ result # NoErr
    /\ result[1] = "failed to create archives"

\* createArchives has returned nil.
ArchivesSucceeded ==
    /\ ArchiveEntered
    /\ pc \in {"afterHooks", "done"}
    /\ ~ArchivesFailed

EntryNames == {e[2] : e \in disk.entries}

\* C11: round trip between the names of the build and of the archive stage:
\* for every compile job that succeeded, the directory it wrote in the output
\* directory is taken up by createArchives (it has at least four parts), and
\* the Binary, Version, Os and Arch createArchives reads from the name are the
\* binary name, the version, the OS and the architecture of the job, with the
\* platform suffix enabled or disabled.
C11_RoundTrip ==
    \A c \in completed :
        c.ok =>
            LET name == c.job.out[2] IN
            /\ Archivable(name)
            /\ <<ArchiveTemplateData(name).Binary>>
                    = BinaryBase(cfgBuilds[c.job.build])
            /\ ArchiveTemplateData(name).Version = gitTag
            /\ ArchiveTemplateData(name).Os = c.job.goos
            /\ ArchiveTemplateData(name).Arch = c.job.goarch

\* The archive name the specification gives for an entry and an archive entry
\* with one of the name templates of ArchiveConfigs.
ExpectedArchive(archive, name) ==
    IF archive.NameTemplate = <<>>
    THEN SubSeq(name, 1, Len(name) - 1) \o <<name[Len(name)] \o ".tar.gz">>
    ELSE IF Len(archive.NameTemplate) = 4
    THEN <<name[1], name[2], name[3], name[4] \o ".tar.gz">>
    ELSE <<name[1] \o "-" \o name[2] \o ".tar.gz">>

\* The (entry, archive entry) pairs C12 speaks of: entries of at least four
\* parts and archive entries that list tar.gz.
TarGzPairs ==
    {<<f, a>> \in (1..Len(files)) \X (1..Len(cfgArchives)) :
        /\ Archivable(files[f].name)
        /\ \E k \in 1..Len(cfgArchives[a].Formats) :
                cfgArchives[a].Formats[k] = "tar.gz"}

RemovalOf(name, ok) ==
    \E k \in 1..Len(removals) : removals[k].name = name /\ removals[k].ok = ok

\* C12 as claimed: after a successful archive stage, for every entry of at
\* least four parts and every archive entry listing tar.gz, the archive named
\* by the rendered template (the entry name without template) with ".tar.gz"
\* exists in the output directory and the entry no longer exists.
C12_Original ==
    ArchivesSucceeded =>
        \A p \in TarGzPairs :
            /\ ExpectedArchive(cfgArchives[p[2]], files[p[1]].name) \in EntryNames
            /\ files[p[1]].name \notin EntryNames

\* C12 as amended: after a successful archive stage, for every such pair the
\* archive has been written under that name by a worker that returned nil and
\* it exists unless an entry of that very name was itself archived and
\* removed; the removal of the entry has been attempted once, and the entry no
\* longer exists unless that removal failed.
C12_ArchivesCreated ==
    ArchivesSucceeded =>
        \A p \in TarGzPairs :
            LET name == files[p[1]].name
                dst == ExpectedArchive(cfgArchives[p[2]], name)
            IN /\ \E w \in 1..Len(aworkers) :
                    /\ aworkers[w].src = name
                    /\ aworkers[w].dst = dst
                    /\ aworkers[w].st = "ok"
               /\ dst \in EntryNames \/ RemovalOf(dst, TRUE)
               /\ Cardinality({k \in 1..Len(removals) : removals[k].name = name}) = 1
               /\ name \in EntryNames <=> RemovalOf(name, FALSE)

\* C12 witness: myapp_v1.2.0_linux_amd64 with the template
\* {{.Binary}}_{{.Version}}_{{.Os}}_{{.Arch}} gave
\* myapp_v1.2.0_linux_amd64.tar.gz, and the entry is gone.
C12_Witness ==
    /\ ArchivesSucceeded
    /\ cfgArchives = <<ArchiveSpec(<<"tar.gz">>, FullNameTemplate)>>
    /\ \E f \in 1..Len(files) :
            files[f].name = <<"myapp", "v1.2.0", "linux", "amd64">>
    /\ <<"myapp", "v1.2.0", "linux", "amd64.tar.gz">> \in EntryNames
    /\ <<"myapp", "v1.2.0", "linux", "amd64">> \notin EntryNames

\* The entries of the directory read that have fewer than four parts.
ShortEntries == {f \in 1..Len(files) : ~Archivable(files[f].name)}

\* C13: an entry whose name has fewer than four "_"-separated parts is left
\* alone by the archive stage: no worker archives it, it is not marked as
\* archived, no removal is attempted on it and it stays in the directory; and
\* a directory of such entries only makes no archive worker and no failure of
\* the stage other than that of reading the directory.
C13_ShortEntriesUntouched ==
    /\ \A f \in ShortEntries :
        /\ files[f].name \in EntryNames
        /\ IsDir(disk, files[f].name) = files[f].isDir
        /\ files[f].name \notin archivedFiles
        /\ \A w \in 1..Len(aworkers) : aworkers[w].src # files[f].name
        /\ \A k \in 1..Len(removals) : removals[k].name # files[f].name
    /\ (files # <<>> /\ ShortEntries = 1..Len(files)) =>
        /\ aworkers = <<>>
        /\ ~ArchivesFailed

\* C13 witness: readme.txt next to an entry that was archived and removed.
C13_Witness ==
    /\ ArchivesSucceeded
    /\ \E f \in ShortEntries : files[f].name = <<"readme.txt">>
    /\ <<"readme.txt">> \in EntryNames
    /\ \E k \in 1..Len(removals) : removals[k].ok

\* C14: no entry is removed while a worker of the archive stage is running:
\* the cleanup is entered, and every removal is made, with no worker running.
C14_NoRemovalWhileArchiving ==
    /\ pc = "archiveCleanup" => ArchiveRunning = {}
    /\ \A k \in 1..Len(removals) : removals[k].running = {}

\* C14 witness: two workers ran and an entry was removed.
C14_Witness ==
    /\ Len(aworkers) >= 2
    /\ Len(removals) >= 1

(***************************************************************************)
(* Properties of the errgroup of buildBinaries.                            *)
(***************************************************************************)
BuildFailed ==
    /\ pc = "done"
    /\ result # NoErr
    /\ result[1] = "build error"

\* The compile jobs whose process is running.
InFlight == {e.job : e \in invoked} \ {c.job : c \in completed}

\* C15: createArchives is entered only when no compile job is running: every
\* job of the expansion of every build configuration has been started and
\* has ended, and none of them failed.
C15_ArchiveAfterJobs ==
    (pc = "createArchives" \/ ArchiveEntered) =>
        /\ Running = {}
        /\ InFlight = {}
        /\ \A n \in 1..Len(cfgBuilds) :
                {Triple(e.job) : e \in InvokedOf(n)} = Expansion(cfgBuilds[n])
        /\ \A c \in completed : c.ok

\* C15 witness: the archive stage was entered after the jobs of two build
\* configurations.
C15_Witness ==
    /\ ArchiveEntered
    /\ Len(cfgBuilds) = 2
    /\ Cardinality(invoked) >= 3

\* C16 as claimed: once a compile job has failed, eg.Wait does not wait for
\* the other jobs: at the wait step with an error recorded, the step returns
\* whether or not a sibling is running.
C16_Original ==
    (pc = "wait" /\ egErr # NoErr) => WaitReturns(Running, egErr)

\* C16 as amended: when a compile job fails the build still starts the
\* worker of every OS and waits until all of them have returned, and then
\* returns the first error wrapped; no sibling job is killed: every job that was
\* started has run to its end.
C16_FirstErrorAfterAll ==
    BuildFailed =>
        /\ Running = {}
        /\ InFlight = {}
        /\ Len(workers) = Len(cfgBuilds[bpos].Goos)
        /\ \E w \in 1..Len(workers) :
            /\ workers[w].ret # NoErr
            /\ workers[w].after = 0
            /\ result = Wrap("build error", workers[w].ret)

\* C16 witness: two workers failed with different errors, and a third job
\* ended well after the first failure.
C16_Witness ==
    /\ BuildFailed
    /\ \E v, w \in 1..Len(workers) :
        /\ workers[v].ret # NoErr
        /\ workers[w].ret # NoErr
        /\ workers[v].ret # workers[w].ret
    /\ \E c \in completed : c.ok

\* C17: at most numCPU OS workers run at a time, a worker has at most one
\* compile process in flight, and so the processes in flight are at most
\* min(numCPU, number of OS targets).
C17_PoolLimit ==
    /\ Cardinality(Running) <= numCPU
    /\ \A j, k \in InFlight : j.goos = k.goos => j = k
    /\ Cardinality(InFlight) = Cardinality(Running)
    /\ pc \in {"spawn", "wait"} =>
        /\ Cardinality(InFlight) <= numCPU
        /\ Cardinality(InFlight) <= Len(cfgBuilds[bpos].Goos)

\* C17 witness: one processing unit, two OS targets: the second worker runs
\* after the first has returned.
C17_Witness ==
    /\ numCPU = 1
    /\ pc = "wait"
    /\ Len(workers) = 2
    /\ Cardinality(Running) = 1
    /\ workers[1].st = "done"
    /\ \E c \in completed : c.job.goos = cfgBuilds[bpos].Goos[1]

(***************************************************************************)
(* Properties of templates, of the trust store and of sink validation.     *)
(***************************************************************************)
\* Whether a template references a field that is not in schema.
UnknownField(tmpl, schema) ==
    \E k \in 1..Len(tmpl) : tmpl[k].kind = "field" /\ tmpl[k].v \notin schema

\* C18, for the directory template of a publish sink: a sink whose directory
\* template references a field other than Version fails, it never returns nil
\* and never does a network operation (with a directory in which a
\* placeholder stands for the field).
C18_UnknownFieldFails ==
    \A b \in Range(processed) :
        (cfgBlobs[b].Provider \in {"s3", "ssh"}
            /\ UnknownField(cfgBlobs[b].Directory, {"Version"})) =>
                /\ \A k \in 1..Len(netops) : netops[k].blob # b
                /\ \A k \in 1..Len(finished) :
                        finished[k].blob = b => finished[k].err # NoErr

\* C19, for deploy: whenever a connection is opened with host-key
\* verification (goph.New is called), the known_hosts file exists and holds a
\* key of the server: a server without a recorded key has been probed and
\* its key appended, whether or not the file existed before.
C19_TrustBootstrap ==
    \A k \in 1..Len(conns) :
        ~conns[k].insecure =>
            /\ knownHosts.file
            /\ conns[k].server \in knownHosts.hosts

\* A sink of the configuration file that C20 calls acceptable.
WellFormedSink(c) ==
    /\ c.Name # ""
    /\ c.Server # ""
    /\ c.User # ""
    /\ c.Directory # <<>>
    /\ (c.KeyPath # "") # (c.key_raw # "")

Rejected(k) ==
    /\ finished[k].err # NoErr
    /\ finished[k].err[1] = "invalid SSH configuration"

\* C20: an ssh sink is rejected by validation exactly when it is not well
\* formed (name, server, user and directory set, and exactly one of key_path
\* and key_raw), so a sink with key_raw only is accepted; and a sink that is
\* not well formed does no network operation.
C20_SinkAccepted ==
    /\ \A k \in 1..Len(finished) :
        cfgBlobs[finished[k].blob].Provider = "ssh" =>
            (Rejected(k) <=> ~WellFormedSink(cfgBlobs[finished[k].blob]))
    /\ \A k \in 1..Len(netops) :
        cfgBlobs[netops[k].blob].Provider = "ssh" =>
            WellFormedSink(cfgBlobs[netops[k].blob])

(***************************************************************************)
(* Properties of the publish sinks.                                        *)
(***************************************************************************)
\* The network operations of the sink b, in order.
OpsOf(b) == SelectSeq(netops, LAMBDA o : o.blob = b)

\* The error the sink b returned, Pending when it has not returned.
SinkError(b) ==
    IF b \in FinishedBlobs
    THEN (CHOOSE e \in Range(finished) : e.blob = b).err
    ELSE Pending

S3Sinks == {b \in Range(processed) : cfgBlobs[b].Provider = "s3"}

\* The operations of an ObjectStorage sink are a bucket check, then at most
\* one bucket creation, then uploads; an upload is done only to a bucket that
\* is there; without the credentials the sink has failed with no operation.
S3StepsInOrder ==
    /\ \A b \in S3Sinks :
        LET ops == OpsOf(b) IN
        /\ ~awsCreds =>
            /\ ops = <<>>
            /\ SinkError(b) =
                    <<"AWS_ACCESS_KEY_ID and AWS_SECRET_ACCESS_KEY must be set">>
        /\ \A k \in 1..Len(ops) :
            /\ ops[k].op = "BucketExists" <=> k = 1
            /\ ops[k].op = "MakeBucket" => k = 2
            /\ ops[k].op \in {"BucketExists", "MakeBucket", "PutObject"}
            /\ ops[k].op = "PutObject" =>
                    cfgBlobs[b].Bucket \in remote.buckets
    /\ pc = "makeBucket" => Blob.Bucket \notin remote.buckets
    /\ (pc = "upload" /\ Blob.Provider = "s3") => Blob.Bucket \in remote.buckets

\* The bucket check is followed by the creation exactly when the bucket is
\* missing, and the creation by uploads only when the bucket was made.
S3CreatesIfMissing ==
    /\ (pc = "bucketExists" /\ pc' = "makeBucket") =>
            Blob.Bucket \notin remote.buckets
    /\ (pc = "bucketExists" /\ pc' = "upload") =>
            Blob.Bucket \in remote.buckets
    /\ (pc = "makeBucket" /\ pc' = "upload") =>
            /\ Blob.Bucket \notin remote.buckets
            /\ Blob.Bucket \in remote'.buckets
    /\ (pc' = "upload" /\ Blob.Provider = "s3") =>
            pc \in {"bucketExists", "makeBucket", "upload"}

\* C21: an ObjectStorage sink orders its steps as credential check, bucket
\* check, bucket creation (if and only if the bucket is missing), uploads:
\* without the credentials it fails with no network operation, and no object
\* is put before the bucket is known to exist.
C21_S3StepOrder == []S3StepsInOrder /\ [][S3CreatesIfMissing]_vars

\* C21 witness: a sink checked the bucket, made it, uploaded a file and
\* returned nil.
C21_Witness ==
    \E b \in S3Sinks :
        /\ SinkError(b) = NoErr
        /\ Len(OpsOf(b)) >= 3
        /\ OpsOf(b)[2].op = "MakeBucket"
        /\ OpsOf(b)[3].op = "PutObject"

\* The sinks that were entered: publishToS3 or publishToSSH was called.
Sinks == {b \in Range(processed) : cfgBlobs[b].Provider \in {"s3", "ssh"}}

\* The entries of the output directory that are no directories, in order.
LocalFiles == SelectSeq(outDir, LAMBDA e : ~e.isDir)

\* The uploads the sink b started, in order.
UploadsOf(b) == SelectSeq(OpsOf(b), LAMBDA o : o.op \in {"PutObject", "Upload"})

\* What is stored at the place of a sink.
Stored(c) == IF c.Provider = "s3" THEN remote.objects ELSE remote.files

UploadFailure(b) ==
    /\ SinkError(b) # NoErr
    /\ SinkError(b)[1] = "failed to upload file"

\* C22: within one sink the files are uploaded one at a time, in the order
\* of the directory, each after the one before it was stored; when an upload
\* fails the sink fails with the error of that file, which is the last one
\* it started, and the files uploaded before it remain at the remote
\* location.
C22_UploadsStopAtFailure ==
    \A b \in Sinks :
        LET u == UploadsOf(b)
            c == cfgBlobs[b]
        IN /\ Len(u) <= Len(LocalFiles)
           /\ \A k \in 1..Len(u) :
                /\ u[k].arg = RemotePath(c, gitTag, LocalFiles[k].name)
                /\ k < Len(u) => u[k].arg \in Stored(c)
           /\ (Len(u) >= 1 /\ ~UploadFailure(b)) => u[Len(u)].arg \in Stored(c)
           /\ UploadFailure(b) =>
                /\ Len(u) >= 1
                /\ SinkError(b)[2] = LocalFiles[Len(u)].name
                /\ pc = "done"
                /\ result # NoErr

\* C22 witness: a sink stored a file and failed at the next one, and nothing
\* of the place was there before.
C22_Witness ==
    \E b \in Sinks :
        /\ UploadFailure(b)
        /\ Len(UploadsOf(b)) = 2
        /\ UploadsOf(b)[1].arg \in Stored(cfgBlobs[b])
        /\ Cardinality(Stored(cfgBlobs[b])) = 1

\* The names of the uploads the sink b started.
UploadedNames(b) == {UploadsOf(b)[k].arg[3] : k \in 1..Len(UploadsOf(b))}

\* C23: a sink that returned nil has uploaded exactly the entries of the
\* output directory that are no directories, each once, to the rendered
\* directory of the sink joined with the name of the entry, and they are
\* stored there; no sink ever uploads a directory entry.
C23_ExactlyTheFiles ==
    \A b \in Sinks :
        LET u == UploadsOf(b)
            c == cfgBlobs[b]
        IN /\ \A e \in Range(outDir) : e.isDir => e.name \notin UploadedNames(b)
           /\ SinkError(b) = NoErr =>
                /\ UploadedNames(b) = {e.name : e \in {x \in Range(outDir) : ~x.isDir}}
                /\ \A i, j \in 1..Len(u) : u[i].arg = u[j].arg => i = j
                /\ \A k \in 1..Len(u) :
                    /\ u[k].arg[1] = (IF c.Provider = "s3" THEN c.Bucket ELSE c.Server)
                    /\ u[k].arg[2] = ExecuteMap(c.Directory, [Version |-> gitTag])
                    /\ u[k].arg \in Stored(c)

\* C23 witness: a sink returned nil; the directory holds two files and a
\* subdirectory.
C23_Witness ==
    \E b \in Sinks :
        /\ SinkError(b) = NoErr
        /\ Len(UploadsOf(b)) = 2
        /\ \E e \in Range(outDir) : e.isDir

\* The context publishArtifacts wraps the error of a sink of provider p in.
KindOf(p) == IF p = "s3" THEN "s3 publish error" ELSE "ssh publish error"

\* C24: when a sink fails, publish has returned the error of that sink
\* wrapped with its kind; the failing sink is the last one taken up and the
\* last to do a network operation; the sinks that returned nil before it
\* keep the files they uploaded.
C24_FirstSinkFailureStops ==
    \A k \in 1..Len(finished) :
        finished[k].err # NoErr =>
            /\ pc = "done"
            /\ result = <<KindOf(cfgBlobs[finished[k].blob].Provider)>>
                            \o finished[k].err
            /\ k = Len(finished)
            /\ processed[Len(processed)] = finished[k].blob
            /\ \A o \in Range(netops) :
                \E j \in 1..Len(finished) : finished[j].blob = o.blob
            /\ \A j \in 1..(k - 1) :
                /\ finished[j].err = NoErr
                /\ \A o \in Range(UploadsOf(finished[j].blob)) :
                        o.arg \in Stored(cfgBlobs[finished[j].blob])

\* C24 witness: of two sinks the first uploaded files and returned nil, and
\* the second failed.
C24_Witness ==
    /\ Len(finished) = 2
    /\ finished[1].err = NoErr
    /\ Len(UploadsOf(finished[1].blob)) >= 1
    /\ finished[2].err # NoErr
    /\ pc = "done"

\* The sinks taken up whose provider is neither s3 nor ssh.
SkippedSinks == Range(processed) \ Sinks

\* C25: a sink whose provider is neither s3 nor ssh does no network
\* operation and returns no error; when publish fails, a sink of provider s3
\* or ssh failed or no sink has the name; and publish does not end at a
\* skipped sink that has selected sinks after it.
C25_UnknownProviderSkipped ==
    /\ \A b \in SkippedSinks :
        /\ OpsOf(b) = <<>>
        /\ b \notin FinishedBlobs
    /\ (pc = "done" /\ result # NoErr) =>
        \/ \E k \in 1..Len(finished) :
            /\ finished[k].blob \in Sinks
            /\ finished[k].err # NoErr
            /\ result = <<KindOf(cfgBlobs[finished[k].blob].Provider)>>
                            \o finished[k].err
        \/ result = <<"publish configuration not found", publishName>>
    /\ (pc = "done" /\ processed # <<>>
            /\ processed[Len(processed)] \in SkippedSinks) =>
        /\ Len(processed) = Len(blobs)
        /\ result = NoErr

\* C25 witness: the first sink has an unknown provider, the second uploaded
\* a file, and publish returned nil.
C25_Witness ==
    /\ Len(processed) = 2
    /\ processed[1] \in SkippedSinks
    /\ Len(UploadsOf(processed[2])) >= 1
    /\ pc = "done"
    /\ result = NoErr

\* The calls publish makes of a storage service or a server: none of them
\* deletes.
AdditiveOps == {"BucketExists", "MakeBucket", "PutObject", "Connect", "Mkdir", "Upload"}

\* A step takes nothing away from the remote state.
RemoteGrows ==
    /\ remote.buckets \subseteq remote'.buckets
    /\ remote.objects \subseteq remote'.objects
    /\ remote.dirs \subseteq remote'.dirs
    /\ remote.files \subseteq remote'.files

\* C26: publish is additive on remote state: every network operation is a
\* check, a creation or an upload, and no step of a run, from whatever
\* earlier runs left, removes a bucket, an object, a directory or a file.
C26_RemoteNeverShrinks ==
    /\ [](\A o \in Range(netops) : o.op \in AdditiveOps)
    /\ [][RemoteGrows]_vars

\* C26 witness: a run on what an earlier run left has stored an object over
\* one that was there and a new one beside it.
C26_Witness ==
    /\ EarlierRun.objects \subseteq remote.objects
    /\ EarlierRun.objects # remote.objects
    /\ \E o \in Range(netops) : o.op = "PutObject" /\ o.arg \in EarlierRun.objects
    /\ pc = "done"

(***************************************************************************)
(* Properties of the stages of the build command.                          *)
(***************************************************************************)
StageRank(st) ==
    CASE st = "before" -> 1
      [] st = "remove" -> 2
      [] st = "clean" -> 3
      [] st = "build" -> 4
      [] st = "archive" -> 5
      [] st = "after" -> 6

\* The number of entries st of the stage log.
StageCount(st) == Cardinality({k \in 1..Len(stages) : stages[k] = st})

StageEntered(st) == StageCount(st) > 0

\* Every before hook ran and none failed.
BeforeHooksOk == StageCount("before") = Len(cfgHooks.Before)

\* Every build configuration was taken up and every compile job ended well.
CompileOk ==
    /\ StageCount("build") = Len(cfgBuilds)
    /\ Running = {}
    /\ InFlight = {}
    /\ \A c \in completed : c.ok
    /\ egErr = NoErr

\* createArchives ran to its end: no template failed, every goroutine
\* returned nil.
ArchiveStageOk ==
    \/ cfgArchives = <<>>
    \/ /\ aErr = NoErr
       /\ \A w \in 1..Len(aworkers) : aworkers[w].st = "ok"
       /\ (\E f \in 1..Len(files) : Archivable(files[f].name)) =>
            \A a \in 1..Len(cfgArchives) : ArchiveNameError(cfgArchives[a]) = NoErr

\* The stage log is in the order before hooks, directory, builds, archives,
\* after hooks, with the directory and the archive stage once; a stage is in
\* the log only when the stages before it ended without error; the compile
\* jobs are those of the builds taken up so far, and a build is taken up
\* after the jobs of the builds before it ended well.
StagesInOrder ==
    /\ \A i, j \in 1..Len(stages) :
            i < j => StageRank(stages[i]) <= StageRank(stages[j])
    /\ StageCount("clean") <= 1
    /\ StageCount("remove") <= StageCount("clean")
    /\ StageCount("archive") <= 1
    /\ StageEntered("clean") => BeforeHooksOk
    /\ StageEntered("build") => (StageEntered("clean") /\ disk.exists)
    /\ \A e \in invoked :
        /\ e.job.build <= StageCount("build")
        /\ e.job.build < StageCount("build") =>
                [job |-> e.job, ok |-> TRUE] \in completed
    /\ StageEntered("archive") => (StageEntered("clean") /\ CompileOk)
    /\ StageEntered("after") =>
        /\ BeforeHooksOk
        /\ CompileOk
        /\ StageEntered("archive")
        /\ ArchiveStageOk
    /\ (pc = "done" /\ result = NoErr) =>
        /\ StageEntered("archive")
        /\ StageCount("after") = Len(cfgHooks.After)
    /\ result \notin {Pending, NoErr} => pc = "done"

\* Up to the recreation of the output directory nothing touches it.
DirKeptBeforeClean == ~StageEntered("clean")' => disk' = disk

\* C27: a build goes through before hooks, the recreation of the output
\* directory, the builds in configured order, the archive stage and the
\* after hooks, each stage only after the one before it ended without error:
\* the after hooks do not run when a before hook, a compile job or the
\* archive stage failed, and the output directory is left as it was when a
\* before hook fails.
C27_StageOrder == []StagesInOrder /\ [][DirKeptBeforeClean]_vars

\* C27 witness: a build with hooks, two build configurations and archives
\* went through every stage and returned nil.
C27_Witness ==
    /\ pc = "done"
    /\ result = NoErr
    /\ Len(cfgBuilds) = 2
    /\ StageCount("before") >= 1
    /\ StageCount("after") >= 1
    /\ \E w \in 1..Len(aworkers) : aworkers[w].st = "ok"

\* The step that starts the first compile job finds the output directory
\* there and empty.
FirstJobFindsEmptyDir ==
    (invoked = {} /\ invoked' # {}) =>
        /\ disk.exists
        /\ disk.entries = {}
        /\ StageEntered("clean")

\* C28: the output directory is recreated before building: when the first
\* compile job is started the directory exists and holds none of the entries
\* it held before the build (it holds nothing), and it goes on existing
\* while jobs are started.
C28_DirRecreated ==
    /\ [](invoked # {} => disk.exists)
    /\ [](\A c \in completed : c.ok => c.job.out \in disk.entries \/ ArchiveEntered)
    /\ [][FirstJobFindsEmptyDir]_vars

\* C28 witness: the directory was there before the build and was removed, and
\* a compile job has been started in the new one.
C28_Witness ==
    /\ StageEntered("remove")
    /\ invoked # {}
    /\ completed = {}
    /\ disk = [exists |-> TRUE, entries |-> {}]

JobFailed == \E c \in completed : ~c.ok

\* C29: once a compile job has failed (a non-zero exit or a failure to start
\* the compiler), the build goes no further than the wait for the workers of
\* that build configuration and ends with a build error; the outputs of the
\* jobs that ended well, of sibling workers and of earlier build
\* configurations, stay in the output directory, which is not removed.
C29_FailureKeepsOutputs ==
    JobFailed =>
        /\ pc \in {"spawn", "wait", "done"}
        /\ pc = "done" => BuildFailed
        /\ ~StageEntered("archive")
        /\ ~StageEntered("after")
        /\ disk.exists
        /\ \A c \in completed : c.ok => c.job.out \in disk.entries

\* C29 witness: the build failed on a job that could not be started, after a
\* sibling worker of the same build configuration wrote its output.
C29_Witness ==
    /\ BuildFailed
    /\ \E c1, c2 \in completed :
        /\ ~c1.ok
        /\ c2.ok
        /\ c1.job.build = c2.job.build
        /\ c1.job.goos # c2.job.goos
        /\ c2.job.out \in disk.entries
    /\ result = <<"build error", "build error", "exec: go: executable file not found">>

(***************************************************************************)
(* Properties of unsupported archive formats.                              *)
(***************************************************************************)
\* The formats cfg.Archives lists.
ConfiguredFormats ==
    UNION {Range(cfgArchives[a].Formats) : a \in 1..Len(cfgArchives)}

\* cfg.Archives lists formats, and none of them is tar.gz.
AllUnsupported == ConfiguredFormats # {} /\ "tar.gz" \notin ConfiguredFormats

\* What createArchives can fail with.
ArchiveFailures ==
    {<<"failed to read artifacts directory">>,
     <<"error creating archives", "failed to create tar.gz archive">>}
    \cup {ArchiveNameError(cfgArchives[a]) : a \in 1..Len(cfgArchives)}

\* An archive is written for the format tar.gz only; the archive stage fails
\* with the error of reading the directory, of a name template or of writing
\* a tar.gz archive only; when no configured format is tar.gz no entry is
\* marked as archived, no archive is written, nothing is removed and the
\* stage does not fail with the error of writing an archive.
UnsupportedSkipped ==
    /\ \A w \in 1..Len(aworkers) :
        cfgArchives[aworkers[w].item.a].Formats[aworkers[w].item.k] = "tar.gz"
    /\ ArchivesFailed =>
        \E e \in ArchiveFailures \ {NoErr} :
            result = <<"failed to create archives">> \o e
    /\ AllUnsupported =>
        /\ archivedFiles = {}
        /\ aworkers = <<>>
        /\ removals = <<>>
        /\ \A f \in 1..Len(files) : files[f].name \in EntryNames
        /\ ArchivesFailed =>
            result # <<"failed to create archives", "error creating archives",
                       "failed to create tar.gz archive">>

\* With unsupported formats only, no step changes the output directory.
UnsupportedKeepsDir == AllUnsupported => disk' = disk

\* C30: a format other than tar.gz is skipped and does not fail the archive
\* stage, and an entry for which every configured format is unsupported is
\* neither archived nor deleted.
C30_UnsupportedFormatSkipped ==
    []UnsupportedSkipped /\ [][UnsupportedKeepsDir]_vars

\* C30 witness: with the one format zip the archive stage passed over an
\* entry it would archive and returned nil; the entry is in the directory.
C30_Witness ==
    /\ AllUnsupported
    /\ ArchivesSucceeded
    /\ \E f \in 1..Len(files) :
        /\ Archivable(files[f].name)
        /\ files[f].name \in EntryNames

(***************************************************************************)
(* Properties of helpers.ExpandPath.                                       *)
(***************************************************************************)
TildeSlash == <<"~", "/">>

\* C31: ExpandPath returns its argument unchanged, with no error, for every
\* path that does not start with "~/"; for a path that starts with "~/" it
\* returns the home directory of the current user followed by the path
\* without its leading "~", so that no later "~" is replaced; when the
\* current user cannot be determined it returns that error and no path.
C31_ExpandPath ==
    pc = "returned" =>
        /\ ~HasPrefix(path, TildeSlash) =>
                expanded = [path |-> path, err |-> NoErr]
        /\ HasPrefix(path, TildeSlash) /\ usr.err = NoErr =>
                expanded = [path |-> usr.HomeDir \o Tail(path), err |-> NoErr]
        /\ HasPrefix(path, TildeSlash) /\ usr.err # NoErr =>
                expanded = [path |-> <<>>, err |-> usr.err]

\* ExpandPath returned for "~/~a", which has a second "~".
C31_Witness ==
    /\ pc = "returned"
    /\ path = <<"~", "/", "~", "a">>
    /\ usr.err = NoErr
    /\ expanded.path = usr.HomeDir \o <<"/", "~", "a">>

(***************************************************************************)
(* Properties of the compile processes that run at the same time.          *)
(***************************************************************************)
\* C32: no two compile processes that are in flight at the same time write
\* to the same resolved output path: the jobs that share an output path (the
\* platform suffix disabled, several OS targets) run one after another.
C32_NoSharedPathInFlight ==
    \A j, k \in InFlight : j # k => j.out # k.out

(***************************************************************************)
(* Properties of the archive workers.                                      *)
(***************************************************************************)
\* C33: within one run of createArchives two different work items (entry,
\* ArchiveSpec, format) never target the same archive file, so no two archive
\* workers write the same file; this holds for the entries of two ARM
\* variants of one binary under {{.Binary}}_{{.Version}}_{{.Os}}_{{.Arch}}.
C33_DistinctArchivePaths ==
    \A v, w \in 1..Len(aworkers) :
        aworkers[v].item # aworkers[w].item => aworkers[v].dst # aworkers[w].dst

\* C34: createArchives never returns while an archive worker it started is
\* still running, on every return path: success, the failure of a worker, and
\* a name template that does not parse or render for a later (entry,
\* ArchiveSpec) after workers for earlier ones were started.
C34_ReturnsAfterWorkers ==
    (ArchiveEntered /\ pc \in {"afterHooks", "done"}) => ArchiveRunning = {}

\* C35: when the archive stage fails (a worker returned an error, or a name
\* template did not render) no source entry of the output directory is
\* deleted: entries are deleted only in a run in which eg.Wait returned nil,
\* that is, in which every archive worker succeeded.
C35_FailureKeepsSources ==
    /\ removals # <<>> =>
        /\ aErr = NoErr
        /\ \A w \in 1..Len(aworkers) : aworkers[w].st = "ok"
        /\ ~ArchivesFailed
    /\ ArchivesFailed =>
        /\ removals = <<>>
        /\ \A i \in 1..Len(files) : files[i].name \in EntryNames

\* C35 witness: of two workers one wrote its archive and one failed; the
\* stage failed and both source entries are still there.
C35_Witness ==
    /\ ArchivesFailed
    /\ Len(files) >= 2
    /\ \E v, w \in 1..Len(aworkers) :
        /\ aworkers[v].st = "ok"
        /\ aworkers[w].st = "failed"
        /\ aworkers[v].src # aworkers[w].src
        /\ {aworkers[v].src, aworkers[w].src} \subseteq EntryNames

(***************************************************************************)
(* Properties of a release: build, then publish.                           *)
(***************************************************************************)
\* The build command returned nil and publish has not been started.
BuildReturnedNil ==
    /\ stages # <<>>
    /\ pc = "done"
    /\ result = NoErr
    /\ cfgBlobs = <<>>

PublishStarted == cfgBlobs # <<>>

\* <binary>_<version>[_<os>_<arch>[_<variant>]] of the job j.
TargetDir(j) ==
    LET b == cfgBuilds[j.build] IN
    BinaryBase(b) \o <<gitTag>>
        \o (IF b.DisablePlatformSuffix THEN <<>> ELSE <<j.goos, j.goarch>>)
        \o (IF ~b.DisablePlatformSuffix /\ j.goarch = "arm" /\ j.goarm # ""
            THEN <<j.goarm>> ELSE <<>>)

\* C36: after a build that returned nil with no ArchiveSpec configured, the
\* output directory holds exactly the outputs of the jobs, each the file
\* <binary> inside a subdirectory <binary>_<version>[_<os>_<arch>[_<variant>]],
\* so the publish command that follows finds directories only: no sink
\* uploads anything, no sink fails at a file, and a sink that gets as far as
\* its upload loop returns nil from it.
C36_UnarchivedNotPublished ==
    cfgArchives = <<>> =>
        /\ (BuildReturnedNil \/ PublishStarted) =>
            /\ \A c \in completed : c.ok
            /\ disk.entries =
                {<<"dist", TargetDir(c.job), BinaryBase(cfgBuilds[c.job.build])>> :
                    c \in completed}
        /\ PublishStarted =>
            /\ \A i \in 1..Len(outDir) : outDir[i].isDir
            /\ \A o \in Range(netops) : o.op \notin {"PutObject", "Upload"}
            /\ remote.objects = {}
            /\ remote.files = {}
            /\ pc = "upload" => fi > Len(outDir)
            /\ \A k \in 1..Len(finished) :
                finished[k].err # NoErr =>
                    finished[k].err[1] \notin
                        {"failed to open file", "failed to upload file"}

\* C36 witness: a build of two targets without archives returned nil; publish
\* to a sink then returned nil, the sink having done its network operations.
C36_Witness ==
    /\ cfgArchives = <<>>
    /\ PublishStarted
    /\ Len(outDir) >= 2
    /\ pc = "done"
    /\ result = NoErr
    /\ netops # <<>>
    /\ \E k \in 1..Len(finished) : finished[k].err = NoErr

(***************************************************************************)
(* Properties of a deploy that fails before its first command.             *)
(***************************************************************************)
\* The errors executeDeploy can have before the loop over the commands.
PreCommandErrors ==
    {"unsupported deploy provider", "invalid SSH configuration",
     "failed to check known_hosts file", "failed to expand key path",
     "failed to load SSH key", "failed to create SSH client",
     "failed to create insecure SSH client"}

\* C37: an executeDeploy that failed before its first command (unsupported
\* provider, validation, trust bootstrap, key, connection) has run no remote
\* command, has called sendAlert exactly once, with the status Failed and
\* that error, and has returned that error; a deploy that ran no command
\* failed in one of these ways; a deploy with an empty command list fails the
\* validation (or earlier) without a connection and is never notified as
\* Success.
C37_FailureBeforeCommands ==
    /\ \A k \in 1..Len(returns) :
        LET d == returns[k].deploy
            e == returns[k].err
        IN /\ (e # NoErr /\ e[1] \in PreCommandErrors) =>
                /\ RanOf(d) = <<>>
                /\ Len(AlertsOf(d)) = 1
                /\ AlertsOf(d)[1].data.Status = "Failed"
                /\ AlertsOf(d)[1].data.Error = e
           /\ RanOf(d) = <<>> => (e # NoErr /\ e[1] \in PreCommandErrors)
           /\ cfgDeploys[d].Commands = <<>> =>
                /\ e # NoErr
                /\ e[1] \in {"unsupported deploy provider",
                             "invalid SSH configuration"}
                /\ \A j \in 1..Len(conns) : conns[j].deploy # d
    /\ \A k \in 1..Len(alerts) :
        cfgDeploys[alerts[k].deploy].Commands = <<>> =>
            alerts[k].data.Status = "Failed"
    /\ \A k \in 1..Len(ran) : cfgDeploys[ran[k].deploy].Commands # <<>>

\* C37 witness: a deploy with an empty command list failed the validation
\* and was notified as Failed; nothing was connected to.
C37_Witness ==
    \E k \in 1..Len(returns) :
        LET d == returns[k].deploy IN
        /\ cfgDeploys[d].Commands = <<>>
        /\ returns[k].err =
                <<"invalid SSH configuration", "at least one command is required">>
        /\ Len(AlertsOf(d)) = 1
        /\ AlertsOf(d)[1].data.Status = "Failed"
        /\ conns = <<>>
        /\ ran = <<>>

(***************************************************************************)
(* Termination of the build command.                                       *)
(***************************************************************************)
\* C38: provided every compiler process and every archive worker eventually
\* returns, buildBinaries eventually returns, with nil or an error, whatever
\* the number of OS targets and archive work items is relative to the limit
\* of the worker pools, and whether or not jobs fail.
C38_BuildReturns == <>(result # Pending)

\* C38 witness: the build returned after both pools had more work than
\* places: more OS targets than processing units, and more archive workers.
C38_Witness ==
    /\ result # Pending
    /\ Len(workers) > numCPU
    /\ Len(aworkers) > numCPU

\* Publish and deploy over one trust store: a run is a deploy run or a publish
\* run, and both reach SSH servers through the same known_hosts file.
InitShell == InitDeploy \/ InitPublish

NextShell == NextDeploy \/ NextPublish

SpecShell == InitShell /\ [][NextShell]_vars

\* The deploy spec or the SSH sink being executed has insecure_ignore_host_key
\* set.
InsecureNow ==
    \/ /\ di \in 1..Len(cfgDeploys)
       /\ cfgDeploys[di].Provider = "ssh"
       /\ cfgDeploys[di].InsecureIgnoreHostKey
    \/ /\ bi \in 1..Len(blobs)
       /\ Blob.Provider = "ssh"
       /\ Blob.InsecureIgnoreHostKey

\* C39: while a publish sink or a deploy spec with insecure_ignore_host_key
\* is executed, no step changes the known_hosts file or its directory and no
\* step probes a server for its host key.
C39_InsecureKeepsTrustStore ==
    [][InsecureNow => knownHosts' = knownHosts /\ probes' = probes]_vars

\* An insecure deploy connected and ran a command while there is no
\* known_hosts file and no server was probed.
C39_Witness ==
    /\ \E k \in 1..Len(conns) : conns[k].insecure /\ conns[k].ok
    /\ ran # <<>>
    /\ probes = <<>>
    /\ ~knownHosts.file

\* The stable tags behind the first occurrence of the current tag in the list.
OlderStableTags ==
    {tags[j] : j \in {m \in 1..Len(tags) :
        /\ StableTag(tags[m])
        /\ tags[m] # currentTag
        /\ \E i \in 1..(m - 1) : tags[i] = currentTag}}

\* C40: getPreviousStableGitTag returns "0.0.0" or a tag of the form
\* vMAJOR.MINOR.PATCH that differs from the current tag and stands behind it
\* in the list sorted by descending version, and it returns "0.0.0" only when
\* the list holds no such tag.
C40_PreviousStableIsOlder ==
    pc = "stableReturned" =>
        /\ previousTag = ZeroTag \/ previousTag \in OlderStableTags
        /\ previousTag = ZeroTag => OlderStableTags = {}

====
